---------------------------- MODULE Spec2Model ----------------------------
(***************************************************************************)
(* The MCP session and transport gateway of GitLab-MCP-Server/index.ts:    *)
(* the session Map, the process-wide currentContext, the POST / GET /      *)
(* DELETE handlers of /mcp cut at their await points, the tool handler     *)
(* callback, the transport's onclose callback and the inactivity sweep.    *)
(* With it, the chat back-end of CICD-Agent-Backend/src/index.ts (the       *)
(* OAuth callback, the chat sessions and their cleanup) and the agent side: *)
(* SimpleMCPClient, the chat node and the supervisor graph.                 *)
(***************************************************************************)
EXTENDS Integers, FiniteSets, Sequences, TLC

(* ------------------------------ bounds -------------------------------- *)
MaxTrace == 5
MaxCalls == 2
MaxSessions == 2
MaxTime == 2
MaxRequests == 3

(* ------------------------- program constants -------------------------- *)
TIMEOUT == 1800000
\* one clock step of the model, in ms: a session is exactly TIMEOUT old after one
\* step and older after two
TickMs == TIMEOUT

Calls == 1 .. MaxCalls
NoCall == 0
SessionIds == 1 .. MaxSessions
NoSid == 0
Tokens == {"tok-A", "tok-B", "bad"}
\* the credentials the upstream identity check accepts
ValidTokens == {"tok-A", "tok-B"}
NoToken == "none"
Threw == "threw"
Bodies == {"initialize", "call"}
NoStatus == 0

VARIABLES
    sessions,   \* keys of the Map `sessions`
    obj,        \* the SessionInfo object created under each id
    issued,     \* ids randomUUID() has returned
    everStored, \* ids that have ever been a key of `sessions` (history)
    ctx,        \* currentContext, with the call that assigned it (history)
    call,       \* the handler invocations in flight: position and locals
    last,       \* the response the latest step wrote, with the request it answers
    now,        \* Date.now(), in clock steps
    started,    \* the number of requests taken so far (bounds a run)
    upstream,   \* the upstream exchange of the latest step: a request or its outcome
    remote,     \* whether the file create_or_update_file works on exists upstream
    proc,       \* the process: running, shutting down (deadline timer armed) or exited
    usedCodes,      \* backend: the followed codes in the Set `usedCodes`
    usedOthers,     \* backend: how many further codes the Set holds
    activeSessions, \* backend: the Map `activeSessions`
    minted,         \* backend: ids uuidv4() has returned
    oauth,          \* backend: the OAuth callbacks in flight
    reply,          \* backend: the response the latest step wrote
    settled,        \* backend: codes whose exchange has returned (history)
    chatted,        \* backend: when each session last served a chat request (history)
    mcp,        \* agent: the SimpleMCPClient object in use
    rpc,        \* agent: the client's method invocations in flight
    wire,       \* agent: the request the latest step sent to the gateway
    opened,     \* agent: gateway sessions the clients were given (history)
    deletes,    \* agent: how many DELETEs were sent for each of them (history)
    node,       \* agent: the chat node's position
    graph       \* agent: the graph run: the node it is at and the state's channels

\* the gateway's variables
gatewayVars ==
    <<sessions, obj, issued, everStored, ctx, call, last, now, started, upstream,
      remote, proc>>

\* the backend's variables
backendVars ==
    <<usedCodes, usedOthers, activeSessions, minted, oauth, reply, settled, chatted>>

\* the client's variables
clientVars == <<mcp, rpc, wire, opened, deletes>>

\* the agent graph's variables
agentVars == <<clientVars, node, graph>>

\* what no step of the gateway touches
elsewhere == <<backendVars, agentVars>>

vars == <<gatewayVars, backendVars, agentVars>>

(* ------------------------------ values -------------------------------- *)
EmptyContext == [sid |-> NoSid, tok |-> NoToken, owner |-> NoCall]

BlankObj ==
    [tok |-> NoToken, la |-> 0, ca |-> 0, connected |-> FALSE, closed |-> FALSE,
     tsid |-> NoSid]

\* a slot with no request in it; a handler's locals live in its slot while it runs
IdleCall ==
    [kind |-> "none", pc |-> "idle", hdr |-> NoSid, tok |-> NoToken, body |-> "call",
     sess |-> NoSid, myTok |-> NoToken, tool |-> "none", upTok |-> NoToken,
     hdrOut |-> NoSid, res |-> "none", evs |-> {}, since |-> 0,
     op |-> "none", method |-> "none", probe |-> NoStatus]

\* what a step wrote: an HTTP response (kind, hdr, body, status), an SSE frame
\* (frame), the fields an argument error names (named), a session listing (list,
\* total), the text a result or an error carries (data), and the exception that
\* left the handler (thrown)
Response(kind, hdr, body, status) ==
    [kind |-> kind, hdr |-> hdr, body |-> body, status |-> status,
     frame |-> "none", named |-> {}, list |-> {}, total |-> 0, data |-> "none",
     thrown |-> "none"]

NoResponse == Response("none", NoSid, "call", NoStatus)

\* an exchange with the GitLab API: the operation, the bearer credential sent and,
\* once it has settled, its outcome
Upstream(op, tok, status) == [op |-> op, tok |-> tok, status |-> status]

NoUpstream == Upstream("none", NoToken, NoStatus)

\* the process before any signal: no deadline timer (left is the timer's time left)
Running == [phase |-> "running", left |-> 0]

\* the process has exited (process.exit): no handler, callback or timer runs any more
Exited == proc.phase \in {"exit0", "exit1"}

\* a slot is free once its handler and its tool callback are over
Free(c) ==
    /\ call[c].pc = "idle"
    /\ call[c].tool = "none"

\* requests are anonymous: a new one takes the first free slot
FirstFree(c) ==
    /\ started < MaxRequests
    /\ Free(c)
    /\ \A d \in Calls : d < c => ~Free(d)

(* ----------------------------- helpers -------------------------------- *)
\* getTokenFromContext(): the context's token, else the session's, else throw
GetTokenFromContext ==
    IF ctx.tok # NoToken THEN ctx.tok
    ELSE IF ctx.sid # NoSid /\ ctx.sid \in sessions /\ obj[ctx.sid].tok # NoToken
         THEN obj[ctx.sid].tok
         ELSE Threw

\* a header or body field the request does not carry (undefined)
Absent == "absent"

\* the values JavaScript's || skips: undefined and the empty string
Falsy(v) == v \in {Absent, ""}

\* an Authorization header is <<prefix, rest>> (its value is prefix \o rest), or
\* <<Absent>>; these prefixes are the ones /^Bearer\s+/i matches
BearerPrefixes == {"Bearer ", "bearer  "}

\* req.headers["authorization"]?.replace(/^Bearer\s+/i, "")
StripBearer(a) ==
    IF Len(a) = 1 THEN Absent
    ELSE IF a[1] \in BearerPrefixes THEN a[2]
    ELSE a[1] \o a[2]

\* an extraction that looks at the Authorization header first
ExtractAuthorizationFirst(req) ==
    IF ~Falsy(StripBearer(req.auth)) THEN StripBearer(req.auth)
    ELSE IF ~Falsy(req.x) THEN req.x
    ELSE IF ~Falsy(req.g) THEN req.g
    ELSE IF ~Falsy(req.bodyTok) THEN req.bodyTok
    ELSE NoToken

\* extractGitlabToken(): x-gitlab-token || gitlab-token || authorization less its
\* Bearer prefix || body.gitlab_token || null
ExtractGitlabToken(req) ==
    IF ~Falsy(req.x) THEN req.x
    ELSE IF ~Falsy(req.g) THEN req.g
    ELSE IF ~Falsy(StripBearer(req.auth)) THEN StripBearer(req.auth)
    ELSE IF ~Falsy(req.bodyTok) THEN req.bodyTok
    ELSE NoToken

\* the fetch of GET /user rejected (no HTTP response)
NetworkError == -1

\* what GET /user can answer to a credential: a status, or no answer at all
FetchUser(tok) ==
    IF tok \in ValidTokens THEN {200, NetworkError} ELSE {401, NetworkError}

\* a validator that takes any HTTP response as a yes
ValidateAnyResponse(r) == IF r = NetworkError THEN "false" ELSE "true"

\* a validator whose catch answers true
ValidateFailsOpen(r) ==
    IF r = NetworkError THEN "true"
    ELSE IF r \in 200 .. 299 THEN "true"
    ELSE "false"

\* validateGitlabToken() on the outcome r of its fetch: response.ok, false from
\* the catch of line 136; Threw would be an exception leaving the function
ValidateGitlabToken(r) ==
    IF r = NetworkError THEN "false"
    ELSE IF r \in 200 .. 299 THEN "true"
    ELSE "false"

\* a routing that takes any initialize payload as a new session, whatever header
\* the caller sent
RoutePostInitFirst(hdr, body) ==
    IF hdr # NoSid /\ hdr \in sessions THEN "existing"
    ELSE IF body = "initialize" THEN "initialize"
    ELSE "invalid"

\* the routing of POST /mcp: the if / else-if / else of lines 743, 765, 828
RoutePost(hdr, body) ==
    IF hdr # NoSid /\ hdr \in sessions THEN "existing"
    ELSE IF hdr = NoSid /\ body = "initialize" THEN "initialize"
    ELSE "invalid"

\* a lookup that does not test for a missing header first
RouteByIdLookupOnly(hdr) == IF hdr \notin sessions THEN 404 ELSE 200

\* the lookups of GET /mcp and DELETE /mcp
RouteById(hdr) ==
    IF hdr = NoSid THEN 400
    ELSE IF hdr \notin sessions THEN 404
    ELSE 200

\* a sweep that also removes a session exactly TIMEOUT old
ExpiredInclusive(la, t) == (t - la) * TickMs >= TIMEOUT

\* the sweep's test on one session
Expired(la, t) == (t - la) * TickMs > TIMEOUT

\* an id generator that may return an id again
AnyIds == SessionIds

\* randomUUID(): an id never returned before; ids are opaque, so the first unused
\* one of the pool stands for it
FreshIds == {i \in SessionIds \ issued : \A j \in SessionIds \ issued : i <= j}

\* a transport that draws an id of its own instead of newSessionId
TransportGenOwnId(newSessionId) == (newSessionId % MaxSessions) + 1

\* sessionIdGenerator: () => newSessionId
TransportGenId(newSessionId) == newSessionId

\* the key of sessions.set(newSessionId, sessionInfo)
StoreKey(c) == call[c].sess

\* currentContext = { sessionId: ..., gitlabToken: sessionInfo.gitlabToken }
ContextOf(c, sid, o) == [sid |-> sid, tok |-> o.tok, owner |-> c]

\* initialize calls that have not drawn their id yet (they bound the id pool)
PendingInits == {c \in Calls : call[c].pc = "validate"}

(* ------------------------- backend values ----------------------------- *)
\* the authorization codes the model follows; every other code is only counted
Codes == {"code-1", "code-2"}

\* an empty Map
NoSessions == [i \in {} |-> 0]

\* a slot with no OAuth callback in it
IdleCallback == [pc |-> "idle", code |-> Absent, sid |-> NoSid]

\* a response of the backend: the route, the status, the error member and the
\* sessionId member of its JSON body
Reply(route, status, error, sid) ==
    [route |-> route, status |-> status, error |-> error, sid |-> sid]

NoReply == Reply("none", NoStatus, "none", NoSid)

\* a session no chat request has used
NoChat == -1

(* -------------------------- agent values ------------------------------ *)
\* new SimpleMCPClient(token) (part_003 lines 21-34): no session id, requestId 1;
\* sent (the ids it has put on requests, in order) and ready (an initialize()
\* has returned and no close() followed) are history
NewClient == [sessionId |-> NoSid, requestId |-> 1, sent |-> <<>>, ready |-> FALSE]

\* a method invocation: where it is, and the message of the Error it threw
Rpc(pc, err) == [pc |-> pc, err |-> err]

IdleRpc == Rpc("idle", "none")

\* a request without an id member (a notification, a DELETE)
NoId == 0

\* a request to the gateway: the HTTP method, the JSON-RPC method, the
\* mcp-session-id header and the id member
Wire(http, method, sid, id) == [http |-> http, method |-> method, sid |-> sid, id |-> id]

NoWire == Wire("none", "none", NoSid, NoId)

\* the initial state of compiledGraph.invoke (part_000 lines 144-151), before START
NewRun == [at |-> "START", agentTrace |-> <<>>, finalResult |-> ""]

(* ------------------------------- Init --------------------------------- *)
Init ==
    /\ sessions = {}
    /\ obj = [i \in SessionIds |-> BlankObj]
    /\ issued = {}
    /\ everStored = {}
    /\ ctx = EmptyContext
    /\ call = [c \in Calls |-> IdleCall]
    /\ last = NoResponse
    /\ now = 0
    /\ started = 0
    /\ upstream = NoUpstream
    /\ remote = FALSE
    /\ proc = Running
    /\ usedCodes = {}
    /\ usedOthers = 0
    /\ activeSessions = NoSessions
    /\ minted = {}
    /\ oauth = [c \in Calls |-> IdleCallback]
    /\ reply = NoReply
    /\ settled = {}
    /\ chatted = [i \in SessionIds |-> NoChat]
    /\ mcp = NewClient
    /\ rpc = [c \in Calls |-> IdleRpc]
    /\ wire = NoWire
    /\ opened = {}
    /\ deletes = [i \in SessionIds |-> 0]
    /\ node = "idle"
    /\ graph = NewRun

(* ----------------------------- POST /mcp ------------------------------ *)
\* lines 842-849: set the context, hand the request to the transport; a tools/call
\* message makes the transport call the tool handler back
Dispatch(c, rec, id, o) ==
    /\ ctx' = ContextOf(c, o.tsid, o)
    /\ call' = [call EXCEPT ![c] =
                  [rec EXCEPT !.pc = "handling", !.sess = id, !.tok = NoToken,
                              !.myTok = o.tok,
                              !.tool = IF rec.body = "call" THEN "pending" ELSE "none"]]

\* a tool callback that outlives its handler: the callback's locals stay
Detached(rec) ==
    [IdleCall EXCEPT !.tool = rec.tool, !.sess = rec.sess, !.myTok = rec.myTok,
                     !.upTok = rec.upTok, !.op = rec.op, !.method = rec.method,
                     !.probe = rec.probe]

\* a handler that leaves its context in place when it ends
FinallyNoReset(c) ==
    /\ ctx' = ctx
    /\ call' = [call EXCEPT ![c] =
                  IF call[c].tool = "none" THEN IdleCall ELSE Detached(call[c])]

\* a handler whose end takes its running tool callback with it
FinallyAbortsTool(c) ==
    /\ ctx' = EmptyContext
    /\ call' = [call EXCEPT ![c] = IdleCall]

\* the handler's finally (lines 862-865): the context is reset and the handler is
\* over; a tool callback still running keeps its slot
Finally(c) ==
    /\ ctx' = EmptyContext
    /\ call' = [call EXCEPT ![c] =
                  IF call[c].tool = "none" THEN IdleCall ELSE Detached(call[c])]

\* a call that leaves lastActivity as it is
TouchNever(o, t) == o

\* sessionInfo.lastActivity = Date.now() (lines 746 and 911)
Touch(o, t) == [o EXCEPT !.la = t]

\* a handler that validates every credential a call brings, the stored one too
NewTokenAnyPresent(tok, o) == tok # NoToken

\* line 749: gitlabToken && gitlabToken !== sessionInfo.gitlabToken
NewToken(tok, o) == tok # NoToken /\ tok # o.tok

\* lines 733-792, up to the first await
PostStart(c, hdr, tok, body) ==
    /\ ~Exited
    /\ FirstFree(c)
    /\ LET rec == [IdleCall EXCEPT !.kind = "post", !.hdr = hdr, !.tok = tok,
                                   !.body = body]
           route == RoutePost(hdr, body)
       IN  CASE route = "existing" ->
                  LET o == Touch(obj[hdr], now)
                  IN  /\ obj' = [obj EXCEPT ![hdr] = o]
                      /\ last' = NoResponse
                      /\ IF NewToken(tok, o)
                         THEN /\ call' = [call EXCEPT ![c] =
                                            [rec EXCEPT !.pc = "revalidate", !.sess = hdr]]
                              /\ ctx' = ctx
                         ELSE Dispatch(c, rec, hdr, o)
             [] route = "initialize" ->
                  /\ obj' = obj
                  /\ IF tok = NoToken
                     THEN /\ last' = Response("post", hdr, body, 401)
                          /\ Finally(c)
                     ELSE /\ Cardinality(issued) + Cardinality(PendingInits) < MaxSessions
                          /\ call' = [call EXCEPT ![c] = [rec EXCEPT !.pc = "validate"]]
                          /\ last' = NoResponse
                          /\ ctx' = ctx
             [] OTHER ->
                  /\ obj' = obj
                  /\ last' = Response("post", hdr, body, 400)
                  /\ Finally(c)
    /\ started' = started + 1
    /\ UNCHANGED <<sessions, issued, everStored, now>>
    /\ upstream' = NoUpstream
    /\ UNCHANGED <<remote, proc>>
    /\ UNCHANGED elsewhere

\* lines 734-735 and on: the handler reads the session id header and extracts the
\* credential from the request
PostRequest(c, hdr, req, body) == PostStart(c, hdr, ExtractGitlabToken(req), body)

\* a swap made before the validation result is looked at
SwapTokenAlways(o, tok, ok) == [o EXCEPT !.tok = tok]

\* lines 751-762: the stored credential is replaced only past the `return` of a
\* failed validation
SwapToken(o, tok, ok) == IF ok THEN [o EXCEPT !.tok = tok] ELSE o

\* lines 750-764: validateGitlabToken has settled on a POST to an existing session;
\* an exception out of it would reach the catch of line 850
PostRevalidated(c, ok) ==
    /\ ~Exited
    /\ call[c].pc = "revalidate"
    /\ \E r \in FetchUser(call[c].tok) :
          LET id == call[c].sess
              v == ValidateGitlabToken(r)
              o == SwapToken(obj[id], call[c].tok, ok)
          IN  /\ upstream' = Upstream("user", call[c].tok, r)
              /\ IF v = Threw
                 THEN /\ last' = Response("post", id, call[c].body, 500)
                      /\ Finally(c)
                      /\ obj' = obj
                 ELSE /\ ok = (v = "true")
                      /\ obj' = [obj EXCEPT ![id] = o]
                      /\ IF ~ok
                         THEN /\ last' = Response("post", id, call[c].body, 401)
                              /\ Finally(c)
                         ELSE /\ last' = NoResponse
                              /\ Dispatch(c, call[c], id, o)
    /\ UNCHANGED <<sessions, issued, everStored, now, started>>
    /\ UNCHANGED <<remote, proc>>
    /\ UNCHANGED elsewhere

\* a SessionInfo whose credential is filled in after it has been stored
NewSessionInfoLater(tok, t) == [BlankObj EXCEPT !.la = t, !.ca = t, !.connected = TRUE]

\* the SessionInfo literal of lines 805-812
NewSessionInfo(tok, t) ==
    [BlankObj EXCEPT !.tok = tok, !.la = t, !.ca = t, !.connected = TRUE]

\* lines 781-821: validateGitlabToken has settled on an initialize; then the id, the
\* transport and the SessionInfo, up to the await of server.connect; an exception
\* out of the validator would reach the catch of line 850
PostInitValidated(c, ok) ==
    /\ ~Exited
    /\ call[c].pc = "validate"
    /\ \E r \in FetchUser(call[c].tok) :
          LET v == ValidateGitlabToken(r)
          IN  /\ upstream' = Upstream("user", call[c].tok, r)
              /\ IF v = Threw
                 THEN /\ last' = Response("post", NoSid, "initialize", 500)
                      /\ Finally(c)
                      /\ UNCHANGED <<obj, issued>>
                 ELSE /\ ok = (v = "true")
                      /\ IF ~ok
                         THEN /\ last' = Response("post", NoSid, "initialize", 401)
                              /\ Finally(c)
                              /\ UNCHANGED <<obj, issued>>
                         ELSE \E id \in FreshIds :
                                /\ issued' = issued \cup {id}
                                /\ obj' = [obj EXCEPT ![id] =
                                             NewSessionInfo(call[c].tok, now)]
                                /\ call' = [call EXCEPT ![c].pc = "connecting",
                                                        ![c].sess = id,
                                                        ![c].tok = NoToken]
                                /\ last' = NoResponse
                                /\ UNCHANGED <<ctx>>
    /\ UNCHANGED <<sessions, everStored, now, started>>
    /\ UNCHANGED <<remote, proc>>
    /\ UNCHANGED elsewhere

\* lines 823-849: sessions.set, the response header, the context, and the transport
\* taking the initialize message (it draws its session id from the generator)
PostConnected(c) ==
    /\ ~Exited
    /\ call[c].pc = "connecting"
    /\ LET id == StoreKey(c)
           o == obj[call[c].sess]
       IN  /\ sessions' = sessions \cup {id}
           /\ everStored' = everStored \cup {id}
           /\ Dispatch(c, [call[c] EXCEPT !.hdrOut = id], call[c].sess, o)
           /\ obj' = [obj EXCEPT ![call[c].sess].tsid = TransportGenId(call[c].sess)]
    /\ last' = NoResponse
    /\ UNCHANGED <<issued, now, started>>
    /\ upstream' = NoUpstream
    /\ UNCHANGED <<remote, proc>>
    /\ UNCHANGED elsewhere

\* the messages of the exceptions a handler catches
Errors == {"err-A", "err-B"}

\* the data member of the 500 body (line 858):
\* error instanceof Error ? error.message : String(error)
ErrorData(e) == e

\* the response of the catch of lines 850-861
InternalError(hdr, body, e) ==
    [Response("post", hdr, body, 500) EXCEPT !.data = ErrorData(e)]

\* server.connect rejects with e: the catch of line 850 answers 500, then the finally
PostConnectFailed(c, e) ==
    /\ ~Exited
    /\ call[c].pc = "connecting"
    /\ last' = InternalError(NoSid, "initialize", e)
    /\ Finally(c)
    /\ UNCHANGED <<sessions, obj, issued, everStored, now, started>>
    /\ upstream' = NoUpstream
    /\ UNCHANGED <<remote, proc>>
    /\ UNCHANGED elsewhere

\* the request header and the status of a POST the transport has handled
HandledResponse(c, status) ==
    Response("post", call[c].hdr, call[c].body, status)

\* transport.handleRequest resolves (the transport answers); the finally
PostReturn(c) ==
    /\ ~Exited
    /\ call[c].pc = "handling"
    /\ last' = HandledResponse(c, 200)
    /\ Finally(c)
    /\ UNCHANGED <<sessions, obj, issued, everStored, now, started>>
    /\ upstream' = NoUpstream
    /\ UNCHANGED <<remote, proc>>
    /\ UNCHANGED elsewhere

\* transport.handleRequest rejects with e, before the transport has written
\* anything to res or after it has sent its response head (sent): the catch of line
\* 850 calls res.status(500).json(...) unconditionally, which answers 500 in the
\* first case and throws ERR_HTTP_HEADERS_SENT out of the handler in the second;
\* then the finally
PostThrow(c, e, sent) ==
    /\ ~Exited
    /\ call[c].pc = "handling"
    /\ last' = IF sent
               THEN [HandledResponse(c, 200) EXCEPT !.thrown = "ERR_HTTP_HEADERS_SENT"]
               ELSE InternalError(call[c].hdr, call[c].body, e)
    /\ Finally(c)
    /\ UNCHANGED <<sessions, obj, issued, everStored, now, started>>
    /\ upstream' = NoUpstream
    /\ UNCHANGED <<remote, proc>>
    /\ UNCHANGED elsewhere

(* ------------------------ the tool handler ---------------------------- *)
\* request.params.arguments missing altogether
NoArguments == [project_id |-> "no-arguments", branch |-> "no-arguments",
                ref |-> "no-arguments"]

\* the arguments objects of a create_branch call: each field a string or absent
Arguments ==
    [project_id : {"string", Absent}, branch : {"string", Absent},
     ref : {"string", Absent}] \cup {NoArguments}

\* an arguments object the schema accepts
GoodArguments == [project_id |-> "string", branch |-> "string", ref |-> Absent]

\* CreateBranchSchema.parse(): the paths of the issues it raises; project_id and
\* branch are required strings, ref is optional
SchemaIssues(args) == {f \in {"project_id", "branch"} : args[f] # "string"}

\* an error message made from the first issue alone
FirstIssueOnly(issues) ==
    {f \in issues : \A g \in issues : (g = "project_id") => (f = "project_id")}

\* the fields "Invalid arguments: ..." names (lines 668-673): error.errors mapped
\* one by one and joined
InvalidArguments(issues) == issues

\* the error a tool handler threw, as the step's output
ToolError(message, named) ==
    [Response("tool-error", NoSid, message, NoStatus) EXCEPT !.named = named]

\* the CallToolRequestSchema handler (line 542), called back by the transport for a
\* tools/call message (create_branch stands for every case of the switch): the
\* arguments are required and parsed, then the operation reads the token and
\* issues its upstream fetch
ToolStart(c, args) ==
    /\ ~Exited
    /\ call[c].tool = "pending"
    /\ LET t == GetTokenFromContext
           over == IF call[c].pc = "idle" THEN IdleCall
                   ELSE [call[c] EXCEPT !.tool = "none"]
       IN  IF args = NoArguments
           THEN /\ call' = [call EXCEPT ![c] = over]
                /\ last' = ToolError("Arguments are required", {})
                /\ upstream' = NoUpstream
           ELSE IF SchemaIssues(args) # {}
           THEN /\ call' = [call EXCEPT ![c] = over]
                /\ last' = ToolError("Invalid arguments",
                                     InvalidArguments(SchemaIssues(args)))
                /\ upstream' = NoUpstream
           ELSE IF t = Threw
           THEN /\ call' = [call EXCEPT ![c] = over]
                /\ last' = NoResponse
                /\ upstream' = NoUpstream
           ELSE /\ call' = [call EXCEPT ![c].tool = "fetching", ![c].upTok = t,
                                        ![c].op = "create_branch"]
                /\ last' = NoResponse
                /\ upstream' = Upstream("create_branch", t, NoStatus)
    /\ UNCHANGED <<sessions, obj, issued, everStored, ctx, now, started>>
    /\ UNCHANGED <<remote, proc>>
    /\ UNCHANGED elsewhere

\* what the GitLab API answered to a fetch: the status and the body text; the
\* status NetworkError stands for a fetch that rejected
Answer(status, text) == [status |-> status, text |-> text]

\* a 2xx answer whose JSON fits the operation's response schema
Ok == Answer(200, "json")

\* the answers tried: 2xx with a fitting and with an unfitting body, non-2xx with
\* different bodies, and no answer at all
Answers ==
    {Ok, Answer(200, "malformed"), Answer(404, "text-A"), Answer(404, "text-B"),
     Answer(500, "text-A"), Answer(NetworkError, "none")}

\* response.ok
ResponseOk(r) == r.status \in 200 .. 299

\* the text a tool handler returns: JSON.stringify of the parsed response
ToolResult(sess, text) ==
    [Response("tool-result", sess, "content", NoStatus) EXCEPT !.data = text]

\* the Error an operation throws on a non-2xx answer (lines 193-196):
\* `GitLab API error (${response.status}): ${errorText}`
UpstreamError(sess, r) ==
    [Response("tool-error", sess, "GitLab API error", r.status) EXCEPT !.data = r.text]

\* what an operation makes of the answer to its fetch (lines 193-198): the fetch's
\* rejection goes up as it is, a non-2xx answer is thrown with its status and body,
\* a 2xx body is parsed; a ZodError of that parse is rethrown by the handler's
\* catch as "Invalid arguments" (lines 668-673)
ToolOutcome(sess, r) ==
    IF r.status = NetworkError THEN Response("tool-error", sess, "fetch failed", NoStatus)
    ELSE IF ~ResponseOk(r) THEN UpstreamError(sess, r)
    ELSE IF r.text = "malformed"
         THEN [Response("tool-error", sess, "Invalid arguments", NoStatus)
                 EXCEPT !.named = {"response"}]
    ELSE ToolResult(sess, r.text)

\* the callback is over: its slot is free again unless its handler is still running
ToolOver(rec) ==
    IF rec.pc = "idle" THEN IdleCall
    ELSE [rec EXCEPT !.tool = "none", !.upTok = NoToken, !.op = "none",
                     !.method = "none", !.probe = NoStatus]

\* the upstream fetch of createBranch settles with r and the operation returns or
\* throws
ToolDone(c, r) ==
    /\ ~Exited
    /\ call[c].tool = "fetching"
    /\ call[c].op = "create_branch"
    /\ call' = [call EXCEPT ![c] = ToolOver(call[c])]
    /\ last' = ToolOutcome(call[c].sess, r)
    /\ UNCHANGED <<sessions, obj, issued, everStored, ctx, now, started>>
    /\ upstream' = Upstream("create_branch", call[c].upTok, r.status)
    /\ UNCHANGED <<remote, proc>>
    /\ UNCHANGED elsewhere

(* ----------------------- create_or_update_file ------------------------ *)
\* the case "create_or_update_file" (lines 616-625) with arguments the schema
\* accepts: createOrUpdateFile reads the token (line 310) and calls
\* getFileContents, which reads it again (line 206) and issues the probe
FileStart(c) ==
    /\ ~Exited
    /\ call[c].tool = "pending"
    /\ LET t == GetTokenFromContext
       IN  IF t = Threw
           THEN /\ call' = [call EXCEPT ![c] = ToolOver(call[c])]
                /\ upstream' = NoUpstream
           ELSE /\ call' = [call EXCEPT ![c].tool = "probing", ![c].upTok = t,
                                        ![c].op = "create_or_update_file"]
                /\ upstream' = Upstream("get_file", t, NoStatus)
    /\ last' = NoResponse
    /\ UNCHANGED <<sessions, obj, issued, everStored, ctx, now, started>>
    /\ UNCHANGED <<remote, proc>>
    /\ UNCHANGED elsewhere

\* what GET .../repository/files/:path?ref=branch can answer
ProbeAnswers(exists) ==
    IF exists THEN {Ok, Answer(500, "text-A")}
    ELSE {Answer(404, "text-A"), Answer(500, "text-A")}

\* a choice of method that never updates
WriteMethodAlwaysPost(r) == "POST"

\* lines 324-330: PUT when getFileContents returned, POST when it threw
WriteMethod(r) == IF ResponseOk(r) /\ r.text # "malformed" THEN "PUT" ELSE "POST"

\* lines 223-228 and 327-339: the probe has settled; its failure is swallowed by
\* the catch of line 328, the method is chosen and the write is issued with the
\* token read at line 310
FileProbed(c, r) ==
    /\ ~Exited
    /\ call[c].tool = "probing"
    /\ r \in ProbeAnswers(remote)
    /\ call' = [call EXCEPT ![c].tool = "fetching", ![c].method = WriteMethod(r),
                            ![c].probe = r.status]
    /\ upstream' = Upstream(WriteMethod(r), call[c].upTok, NoStatus)
    /\ last' = NoResponse
    /\ UNCHANGED <<sessions, obj, issued, everStored, ctx, now, started>>
    /\ UNCHANGED <<remote, proc>>
    /\ UNCHANGED elsewhere

\* what the files API answers to a write: an update needs the file to exist, a
\* create needs it not to
WriteAnswer(method, exists) ==
    IF method = "PUT"
    THEN IF exists THEN Ok ELSE Answer(400, "text-A")
    ELSE IF exists THEN Answer(400, "text-B") ELSE Answer(201, "json")

\* lines 332-346: the write has settled
FileWritten(c) ==
    /\ ~Exited
    /\ call[c].tool = "fetching"
    /\ call[c].op = "create_or_update_file"
    /\ LET r == WriteAnswer(call[c].method, remote)
       IN  /\ last' = ToolOutcome(call[c].sess, r)
           /\ upstream' = Upstream(call[c].method, call[c].upTok, r.status)
           /\ remote' = (remote \/ ResponseOk(r))
    /\ call' = [call EXCEPT ![c] = ToolOver(call[c])]
    /\ UNCHANGED <<sessions, obj, issued, everStored, ctx, now, started, proc>>
    /\ UNCHANGED elsewhere

\* another writer of the same repository creates the file or deletes it
ExternalWrite ==
    /\ remote' = ~remote
    /\ last' = NoResponse
    /\ upstream' = NoUpstream
    /\ UNCHANGED <<sessions, obj, issued, everStored, ctx, call, now, started, proc>>
    /\ UNCHANGED elsewhere

(* ------------------------------ GET /mcp ------------------------------ *)
KEEPALIVE == 30000
\* one step of the stream clock, in ms: half a keep-alive period
BeatMs == 15000

\* the events cleanup() is registered on (lines 933-941) and the catch of line 946
Triggers == {"close", "reqerror", "reserror", "reject"}

\* lines 869-945, up to the await of transport.handleRequest: the 200 header and the
\* first frame are written and the keep-alive timer is armed (pc = "streaming")
GetStart(c, hdr) ==
    /\ ~Exited
    /\ FirstFree(c)
    /\ LET status == RouteById(hdr)
       IN  IF status # 200
           THEN /\ last' = Response("get", hdr, "call", status)
                /\ UNCHANGED <<obj, ctx, call>>
           ELSE LET o == [Touch(obj[hdr], now) EXCEPT !.connected = TRUE]
                IN  /\ last' = [Response("get", hdr, "call", status)
                                  EXCEPT !.frame = "established"]
                    /\ obj' = [obj EXCEPT ![hdr] = o]
                    /\ ctx' = ContextOf(c, hdr, o)
                    /\ call' = [call EXCEPT ![c] =
                                  [IdleCall EXCEPT !.kind = "get", !.pc = "streaming",
                                                   !.hdr = hdr, !.sess = hdr,
                                                   !.myTok = o.tok, !.res = "open"]]
    /\ started' = started + 1
    /\ UNCHANGED <<sessions, issued, everStored, now>>
    /\ upstream' = NoUpstream
    /\ UNCHANGED <<remote, proc>>
    /\ UNCHANGED elsewhere

\* a cleanup that leaves the keep-alive timer armed
CleanupKeepsTimer(rec, trig) ==
    [rec EXCEPT !.evs = rec.evs \cup {trig},
                !.res = IF trig = "close" \/ rec.res = "destroyed"
                        THEN "destroyed" ELSE "ended"]

\* cleanup() on the stream's locals (lines 921-930): clearInterval, and res.end()
\* unless the response is destroyed (a closed request has lost its socket)
Cleanup(rec, trig) ==
    [rec EXCEPT !.pc = "torn", !.since = 0, !.evs = rec.evs \cup {trig},
                !.res = IF trig = "close" \/ rec.res = "destroyed"
                        THEN "destroyed" ELSE "ended"]

\* one firing of cleanup() (lines 921-930), by the request's close or error event,
\* the response's error event or a rejection of handleRequest; each fires at most
\* once and the request's close is its last event
GetCleanup(c, trig) ==
    /\ ~Exited
    /\ call[c].kind = "get"
    /\ call[c].pc \in {"streaming", "torn"}
    /\ trig \notin call[c].evs
    /\ ctx' = EmptyContext
    /\ call' = [call EXCEPT ![c] =
                  IF trig = "close" THEN IdleCall ELSE Cleanup(call[c], trig)]
    /\ last' = NoResponse
    /\ UNCHANGED <<sessions, obj, issued, everStored, now, started>>
    /\ upstream' = NoUpstream
    /\ UNCHANGED <<remote, proc>>
    /\ UNCHANGED elsewhere

\* the keep-alive timer fires (lines 904-908)
KeepAlive(c) ==
    /\ ~Exited
    /\ call[c].pc = "streaming"
    /\ call[c].since = KEEPALIVE
    /\ call' = [call EXCEPT ![c].since = 0]
    /\ last' = IF call[c].res # "destroyed"
               THEN [NoResponse EXCEPT !.frame = "keep-alive", !.hdr = call[c].sess]
               ELSE NoResponse
    /\ UNCHANGED <<sessions, obj, issued, everStored, ctx, now, started>>
    /\ upstream' = NoUpstream
    /\ UNCHANGED <<remote, proc>>
    /\ UNCHANGED elsewhere

\* BeatMs pass on the clock of the armed keep-alive timers; a timer that is due
\* fires first
Advance ==
    /\ ~Exited
    /\ \E c \in Calls : call[c].pc = "streaming"
    /\ \A c \in Calls : call[c].pc = "streaming" => call[c].since < KEEPALIVE
    /\ call' = [c \in Calls |->
                  IF call[c].pc = "streaming"
                  THEN [call[c] EXCEPT !.since = call[c].since + BeatMs]
                  ELSE call[c]]
    /\ last' = NoResponse
    /\ UNCHANGED <<sessions, obj, issued, everStored, ctx, now, started>>
    /\ upstream' = NoUpstream
    /\ UNCHANGED <<remote, proc>>
    /\ UNCHANGED elsewhere

(* ----------------------------- DELETE /mcp ---------------------------- *)
\* lines 953-974, up to the await of transport.handleRequest
DelStart(c, hdr) ==
    /\ ~Exited
    /\ FirstFree(c)
    /\ LET status == RouteById(hdr)
       IN  IF status # 200
           THEN /\ last' = Response("delete", hdr, "call", status)
                /\ UNCHANGED <<ctx, call>>
           ELSE /\ last' = NoResponse
                /\ ctx' = ContextOf(c, hdr, obj[hdr])
                /\ call' = [call EXCEPT ![c] =
                              [IdleCall EXCEPT !.kind = "delete", !.pc = "closing",
                                               !.hdr = hdr, !.sess = hdr,
                                               !.myTok = obj[hdr].tok]]
    /\ started' = started + 1
    /\ UNCHANGED <<sessions, obj, issued, everStored, now>>
    /\ upstream' = NoUpstream
    /\ UNCHANGED <<remote, proc>>
    /\ UNCHANGED elsewhere

\* an onclose that leaves the session in the Map
OnCloseNoop(id) == sessions

\* transport.onclose (lines 815-818), called by a closing transport
OnClose(id) == sessions \ {id}

\* the transport handles the DELETE: it closes, which calls transport.onclose, and
\* answers 200
DelClose(c) ==
    /\ ~Exited
    /\ call[c].pc = "closing"
    /\ obj' = [obj EXCEPT ![call[c].sess].closed = TRUE]
    /\ sessions' = OnClose(call[c].sess)
    /\ last' = Response("delete", call[c].sess, "call", 200)
    /\ call' = [call EXCEPT ![c].pc = "closed"]
    /\ UNCHANGED <<issued, everStored, ctx, now, started>>
    /\ upstream' = NoUpstream
    /\ UNCHANGED <<remote, proc>>
    /\ UNCHANGED elsewhere

\* lines 975-982: handleRequest has resolved; sessions.delete, then the finally
DelReturn(c) ==
    /\ ~Exited
    /\ call[c].pc = "closed"
    /\ sessions' = sessions \ {call[c].sess}
    /\ Finally(c)
    /\ last' = NoResponse
    /\ UNCHANGED <<obj, issued, everStored, now, started>>
    /\ upstream' = NoUpstream
    /\ UNCHANGED <<remote, proc>>
    /\ UNCHANGED elsewhere

\* lines 977-982: handleRequest has rejected; 500, then the finally
DelThrow(c) ==
    /\ ~Exited
    /\ call[c].pc = "closing"
    /\ last' = Response("delete", call[c].sess, "call", 500)
    /\ Finally(c)
    /\ UNCHANGED <<sessions, obj, issued, everStored, now, started>>
    /\ upstream' = NoUpstream
    /\ UNCHANGED <<remote, proc>>
    /\ UNCHANGED elsewhere

(* ---------------------------- GET /sessions --------------------------- *)
\* new Date(ms).toISOString(): the instant as text, one text per instant
ToISOString(t) == <<"iso", t * TickMs>>

\* an entry that hands the credential out as hasToken
SessionEntryTruthyToken(id, info) ==
    [id |-> id,
     lastActivity |-> ToISOString(info.la),
     createdAt |-> ToISOString(info.ca),
     connected |-> info.connected,
     hasToken |-> info.tok]

\* one element of sessionList (lines 722-728)
SessionEntry(id, info) ==
    [id |-> id,
     lastActivity |-> ToISOString(info.la),
     createdAt |-> ToISOString(info.ca),
     connected |-> info.connected,
     hasToken |-> info.tok \notin {NoToken, ""}]

\* Array.from(sessions.entries()).map(...) over a Map with these keys and objects
SessionList(keys, objs) == {SessionEntry(id, objs[id]) : id \in keys}

\* app.get("/sessions") (lines 721-730)
ListSessions ==
    /\ ~Exited
    /\ last' = [Response("sessions", NoSid, "call", 200)
                  EXCEPT !.list = SessionList(sessions, obj),
                         !.total = Cardinality(sessions)]
    /\ upstream' = NoUpstream
    /\ UNCHANGED <<sessions, obj, issued, everStored, ctx, call, now, started>>
    /\ UNCHANGED <<remote, proc>>
    /\ UNCHANGED elsewhere

(* ------------------------------- sweep -------------------------------- *)
\* the sessions a tick finds expired (line 685)
ExpiredSessions == {id \in sessions : Expired(obj[id].la, now)}

\* a pass that a throwing close() ends: the sessions after the first failure stay
\* (a Map is walked in insertion order, which is the order of the ids)
SweptUntilFailure(found, failing) == {id \in found : \A f \in failing : id < f}

\* the sessions a pass over `found` deletes when close() throws for `failing`: the
\* try / catch of lines 687-691 (1018-1023) keeps the loop going and
\* sessions.delete (sessions.clear) follows the catch
Swept(found, failing) == found

\* the transports a pass closes: those whose close() did not throw
ClosedBy(found, failing) ==
    [id \in SessionIds |->
       IF id \in found \ failing THEN [obj[id] EXCEPT !.closed = TRUE] ELSE obj[id]]

\* lines 680-695: one tick of the inactivity sweep, on which close() throws for the
\* sessions in `failing` (a tick that finds nothing to remove changes nothing)
SweepTick(failing) ==
    /\ ~Exited
    /\ ExpiredSessions # {}
    /\ failing \subseteq ExpiredSessions
    /\ sessions' = sessions \ Swept(ExpiredSessions, failing)
    /\ obj' = ClosedBy(Swept(ExpiredSessions, failing), failing)
    /\ last' = NoResponse
    /\ upstream' = NoUpstream
    /\ UNCHANGED <<issued, everStored, ctx, call, now, started, remote, proc>>
    /\ UNCHANGED elsewhere

\* a tick on which no close() throws
Sweep == SweepTick({})

(* ------------------------------ shutdown ------------------------------ *)
FORCE_EXIT == 10000
\* one step of the deadline timer's clock, in ms
DeadlineBeatMs == 5000

\* gracefulShutdown (lines 1012-1040) on SIGINT / SIGTERM: every transport is
\* closed (close() throws for the sessions in `failing`), and once the closes
\* have settled the Map is cleared and server_instance.close is called; the
\* deadline timer is armed. A second signal runs it again; the timer of the first
\* one stays
Shutdown(failing) ==
    /\ ~Exited
    /\ failing \subseteq sessions
    /\ sessions' = sessions \ Swept(sessions, failing)
    /\ obj' = ClosedBy(Swept(sessions, failing), failing)
    /\ proc' = [phase |-> "shutting",
                left |-> IF proc.phase = "shutting" THEN proc.left ELSE FORCE_EXIT]
    /\ last' = NoResponse
    /\ upstream' = NoUpstream
    /\ UNCHANGED <<issued, everStored, ctx, call, now, started, remote>>
    /\ UNCHANGED elsewhere

\* DeadlineBeatMs pass on the deadline timer
ShutdownBeat ==
    /\ proc.phase = "shutting"
    /\ proc.left > 0
    /\ proc' = [proc EXCEPT !.left = proc.left - DeadlineBeatMs]
    /\ last' = NoResponse
    /\ upstream' = NoUpstream
    /\ UNCHANGED <<sessions, obj, issued, everStored, ctx, call, now, started, remote>>
    /\ UNCHANGED elsewhere

\* a process whose deadline timer was never armed
DeadlineNever(p) == FALSE

\* the timer of setTimeout(..., 10000) (lines 1036-1039) is due
DeadlineDue(p) == p.phase = "shutting" /\ p.left = 0

\* the deadline timer fires: process.exit(1)
ForceExit ==
    /\ DeadlineDue(proc)
    /\ proc' = [proc EXCEPT !.phase = "exit1"]
    /\ last' = NoResponse
    /\ upstream' = NoUpstream
    /\ UNCHANGED <<sessions, obj, issued, everStored, ctx, call, now, started, remote>>
    /\ UNCHANGED elsewhere

\* the callback of server_instance.close (lines 1029-1032): every connection has
\* ended (no request is being handled, no stream is open); process.exit(0)
ServerClosed ==
    /\ proc.phase = "shutting"
    /\ \A c \in Calls : call[c].pc = "idle"
    /\ proc' = [proc EXCEPT !.phase = "exit0"]
    /\ last' = NoResponse
    /\ upstream' = NoUpstream
    /\ UNCHANGED <<sessions, obj, issued, everStored, ctx, call, now, started, remote>>
    /\ UNCHANGED elsewhere

\* the clock advances
Tick ==
    /\ ~Exited
    /\ now < MaxTime
    /\ now' = now + 1
    /\ last' = NoResponse
    /\ UNCHANGED <<sessions, obj, issued, everStored, ctx, call, started>>
    /\ upstream' = NoUpstream
    /\ UNCHANGED <<remote, proc>>
    /\ UNCHANGED elsewhere

(* -------------------- CICD-Agent-Backend/src/index.ts ----------------- *)
MAX_USED_CODES == 1000
SESSION_MAX_AGE == 30
MsPerMinute == 60000

\* usedCodes.size
UsedCodesSize == Cardinality(usedCodes) + usedOthers

\* activeSessions.set(id, session)
MapSet(m, id, session) ==
    [i \in DOMAIN m \cup {id} |-> IF i = id THEN session ELSE m[i]]

\* the Map after activeSessions.delete of every id in gone
MapDelete(m, gone) == [i \in DOMAIN m \ gone |-> m[i]]

\* uuidv4(): an id never returned before
FreshSessionIds == {i \in SessionIds \ minted : \A j \in SessionIds \ minted : i <= j}

\* oauthCallbackHandler up to its await (lines 44-72): the code is required,
\* refused when the Set holds it, else added to the Set and sent to the exchange
OauthStart(c, code) ==
    /\ oauth[c].pc = "idle"
    /\ IF code = Absent
       THEN /\ reply' = Reply("oauth", 400, "Missing authorization code", NoSid)
            /\ UNCHANGED <<usedCodes, oauth>>
       ELSE IF code \in usedCodes
       THEN /\ reply' = Reply("oauth", 400, "invalid_grant", NoSid)
            /\ UNCHANGED <<usedCodes, oauth>>
       ELSE /\ usedCodes' = usedCodes \cup {code}
            /\ oauth' = [oauth EXCEPT ![c] = [IdleCallback EXCEPT !.pc = "exchanging",
                                                                  !.code = code]]
            /\ reply' = NoReply
    /\ UNCHANGED <<usedOthers, activeSessions, minted, settled, chatted>>
    /\ UNCHANGED <<gatewayVars, agentVars>>

\* what exchangeGitlabToken can do: return a token, return GitLab's OAuth error
\* object, or throw
Exchanges == {"token", "error", "throw"}

\* lines 73-98 and 121-129: the exchange has settled. A throw takes the code out
\* of the Set and answers 500; an error object is answered 400; with a token the
\* handler draws the session id and awaits chatAgent
OauthExchanged(c, r) ==
    /\ oauth[c].pc = "exchanging"
    /\ r \in Exchanges
    /\ CASE r = "throw" ->
               /\ usedCodes' = usedCodes \ {oauth[c].code}
               /\ reply' = Reply("oauth", 500, "Internal server error", NoSid)
               /\ oauth' = [oauth EXCEPT ![c] = IdleCallback]
               /\ UNCHANGED <<minted, settled>>
         [] r = "error" ->
               /\ reply' = Reply("oauth", 400, "data.error", NoSid)
               /\ oauth' = [oauth EXCEPT ![c] = IdleCallback]
               /\ settled' = settled \cup {oauth[c].code}
               /\ UNCHANGED <<usedCodes, minted>>
         [] r = "token" ->
               \E id \in FreshSessionIds :
                  /\ minted' = minted \cup {id}
                  /\ oauth' = [oauth EXCEPT ![c].pc = "agent", ![c].sid = id]
                  /\ settled' = settled \cup {oauth[c].code}
                  /\ reply' = NoReply
                  /\ UNCHANGED usedCodes
    /\ UNCHANGED <<usedOthers, activeSessions, chatted>>
    /\ UNCHANGED <<gatewayVars, agentVars>>

\* lines 99-120: chatAgent has settled. When it returned, the session is stored;
\* when it threw, the inner catch logs and goes on; either way the callback
\* answers 200 with the session id
OauthAgentReady(c, ok) ==
    /\ oauth[c].pc = "agent"
    /\ activeSessions' =
          IF ok THEN MapSet(activeSessions, oauth[c].sid, [createdAt |-> now])
          ELSE activeSessions
    /\ reply' = Reply("oauth", 200, "none", oauth[c].sid)
    /\ oauth' = [oauth EXCEPT ![c] = IdleCallback]
    /\ UNCHANGED <<usedCodes, usedOthers, minted, settled, chatted>>
    /\ UNCHANGED <<gatewayVars, agentVars>>

\* how many callbacks with codes of their own one step of OtherCodes stands for
CodeBurst == 500

\* CodeBurst callbacks with codes the model does not follow, each run to the
\* answer of its exchange: their codes are in the Set
OtherCodes ==
    /\ UsedCodesSize <= MAX_USED_CODES
    /\ usedOthers' = usedOthers + CodeBurst
    /\ reply' = NoReply
    /\ UNCHANGED <<usedCodes, activeSessions, minted, oauth, settled, chatted>>
    /\ UNCHANGED <<gatewayVars, agentVars>>

\* chatHandler (lines 133-175): 400 without a session id, 404 for an id the Map
\* does not hold, else the agent runs and its answer or its failure is returned
ChatRequest(sid, ok) ==
    /\ IF sid = NoSid
       THEN /\ reply' = Reply("chat", 400, "Missing sessionId or message", sid)
            /\ chatted' = chatted
       ELSE IF sid \notin DOMAIN activeSessions
       THEN /\ reply' = Reply("chat", 404, "Session not found", sid)
            /\ chatted' = chatted
       ELSE /\ reply' = IF ok THEN Reply("chat", 200, "none", sid)
                        ELSE Reply("chat", 500, "Failed to process chat request", sid)
            /\ chatted' = [chatted EXCEPT ![sid] = now]
    /\ UNCHANGED <<usedCodes, usedOthers, activeSessions, minted, oauth, settled>>
    /\ UNCHANGED <<gatewayVars, agentVars>>

\* cleanupSessionHandler (lines 198-217)
SessionDelete(sid) ==
    /\ sid \in SessionIds
    /\ activeSessions' = MapDelete(activeSessions, {sid})
    /\ reply' = Reply("cleanup", 200, "none", sid)
    /\ UNCHANGED <<usedCodes, usedOthers, minted, oauth, settled, chatted>>
    /\ UNCHANGED <<gatewayVars, agentVars>>

\* lines 225-226: (now.getTime() - session.createdAt.getTime()) / (1000 * 60)
AgeInMinutes(session, t) == ((t - session.createdAt) * TickMs) \div MsPerMinute

\* lines 222-232: the sessions the cleanup collects
ExpiredChatSessions ==
    {id \in DOMAIN activeSessions :
        AgeInMinutes(activeSessions[id], now) > SESSION_MAX_AGE}

\* the callback of setInterval(..., 60000) (lines 220-256): the collected
\* sessions are deleted, and a Set of more than 1000 codes is cleared
CleanupTick ==
    /\ activeSessions' = MapDelete(activeSessions, ExpiredChatSessions)
    /\ IF UsedCodesSize > MAX_USED_CODES
       THEN usedCodes' = {} /\ usedOthers' = 0
       ELSE UNCHANGED <<usedCodes, usedOthers>>
    /\ reply' = NoReply
    /\ UNCHANGED <<minted, oauth, settled, chatted>>
    /\ UNCHANGED <<gatewayVars, agentVars>>

(* ------------------- SimpleMCPClient (chatAgent.ts) ------------------- *)
\* an answer of the gateway as the client's fetch sees it: the status
\* (NetworkError when the fetch rejects) and the mcp-session-id response header
GatewayAnswer(status, sid) == [status |-> status, sid |-> sid]

\* the id the gateway gives a new session: one it has not given before
NewGatewayIds == {i \in SessionIds \ opened : \A j \in SessionIds \ opened : i <= j}

\* the answers to an initialize: a 200 with the header of a new session or without
\* a header, a non-2xx, a rejected fetch
InitializeAnswers ==
    {GatewayAnswer(200, sid) : sid \in NewGatewayIds \cup {NoSid}}
       \cup {GatewayAnswer(401, NoSid), GatewayAnswer(NetworkError, NoSid)}

\* initialize() up to its first await (part_003 lines 36-58), called on `client`
\* from slot c: the initialize request goes out with id requestId++
ClientInitialize(c, client) ==
    /\ client.requestId <= MaxRequests
    /\ mcp' = [client EXCEPT !.requestId = client.requestId + 1,
                             !.sent = Append(client.sent, client.requestId)]
    /\ rpc' = [rpc EXCEPT ![c] = Rpc("init-fetch", "none")]
    /\ wire' = Wire("POST", "initialize", NoSid, client.requestId)
    /\ UNCHANGED <<opened, deletes>>

\* part_003 lines 60-75: the initialize fetch has settled. A rejected fetch and a
\* non-2xx throw; otherwise the session id is taken from the response header,
\* a missing header throws, and sendNotification sends notifications/initialized
ClientInitialized(c, r) ==
    /\ rpc[c].pc = "init-fetch"
    /\ IF r.status = NetworkError
       THEN /\ rpc' = [rpc EXCEPT ![c] = Rpc("threw", "fetch failed")]
            /\ wire' = NoWire
            /\ UNCHANGED <<mcp, opened>>
       ELSE IF ~ResponseOk(r)
       THEN /\ rpc' = [rpc EXCEPT ![c] = Rpc("threw", "Failed to initialize MCP session")]
            /\ wire' = NoWire
            /\ UNCHANGED <<mcp, opened>>
       ELSE /\ mcp' = [mcp EXCEPT !.sessionId = r.sid]
            /\ IF r.sid = NoSid
               THEN /\ rpc' = [rpc EXCEPT ![c] =
                                 Rpc("threw", "No session ID returned from server")]
                    /\ wire' = NoWire
                    /\ opened' = opened
               ELSE /\ rpc' = [rpc EXCEPT ![c] = Rpc("init-notify", "none")]
                    /\ wire' = Wire("POST", "notifications/initialized", r.sid, NoId)
                    /\ opened' = opened \cup {r.sid}
    /\ UNCHANGED <<deletes, node, graph>>
    /\ UNCHANGED <<gatewayVars, backendVars>>

\* part_003 lines 96-111 and 76-77: the notification's fetch has settled. A
\* rejected fetch throws out of initialize(); any response, 2xx or not, lets it
\* return
ClientNotified(c, r) ==
    /\ rpc[c].pc = "init-notify"
    /\ IF r.status = NetworkError
       THEN /\ rpc' = [rpc EXCEPT ![c] = Rpc("threw", "fetch failed")]
            /\ mcp' = mcp
       ELSE /\ rpc' = [rpc EXCEPT ![c] = Rpc("returned", "none")]
            /\ mcp' = [mcp EXCEPT !.ready = TRUE]
    /\ wire' = NoWire
    /\ UNCHANGED <<opened, deletes, node, graph>>
    /\ UNCHANGED <<gatewayVars, backendVars>>

\* sendRequest() up to its await (part_003 lines 138-166), from slot c: it throws
\* without a session id, else the request goes out with id requestId++
ClientSendRequest(c, method) ==
    /\ IF mcp.sessionId = NoSid
       THEN /\ rpc' = [rpc EXCEPT ![c] = Rpc("threw", "Session not initialized")]
            /\ wire' = NoWire
            /\ mcp' = mcp
       ELSE /\ mcp.requestId <= MaxRequests
            /\ mcp' = [mcp EXCEPT !.requestId = mcp.requestId + 1,
                                  !.sent = Append(mcp.sent, mcp.requestId)]
            /\ rpc' = [rpc EXCEPT ![c] = Rpc("request", "none")]
            /\ wire' = Wire("POST", method, mcp.sessionId, mcp.requestId)
    /\ UNCHANGED <<opened, deletes>>

\* what can come back to a request: a JSON-RPC result, a JSON-RPC error, a body
\* that is neither JSON nor SSE, a non-2xx, a rejected fetch
RequestAnswers == {"result", "error", "unparsable", "not-ok", "rejected"}

\* part_003 lines 168-203: the request's fetch has settled
ClientAnswered(c, r) ==
    /\ rpc[c].pc = "request"
    /\ r \in RequestAnswers
    /\ rpc' = [rpc EXCEPT ![c] =
                 CASE r = "result" -> Rpc("returned", "none")
                   [] r = "error" -> Rpc("threw", "MCP Error")
                   [] r = "unparsable" -> Rpc("threw", "Unable to parse response")
                   [] r = "not-ok" -> Rpc("threw", "Request failed")
                   [] OTHER -> Rpc("threw", "fetch failed")]
    /\ wire' = NoWire
    /\ UNCHANGED <<mcp, opened, deletes, node, graph>>
    /\ UNCHANGED <<gatewayVars, backendVars>>

\* close() (part_003 lines 216-228): with a session id a DELETE is sent and not
\* awaited; the session id is forgotten
ClientClose ==
    /\ IF mcp.sessionId # NoSid
       THEN /\ wire' = Wire("DELETE", "none", mcp.sessionId, NoId)
            /\ deletes' = [deletes EXCEPT ![mcp.sessionId] = deletes[mcp.sessionId] + 1]
       ELSE /\ wire' = NoWire
            /\ deletes' = deletes
    /\ mcp' = [mcp EXCEPT !.sessionId = NoSid, !.ready = FALSE]
    /\ UNCHANGED opened

\* a caller of the client, not the chat node: it calls initialize()
CallInitialize(c) ==
    /\ rpc[c].pc = "idle"
    /\ ClientInitialize(c, mcp)
    /\ UNCHANGED <<node, graph>>
    /\ UNCHANGED <<gatewayVars, backendVars>>

\* callTool() and listTools() (part_003 lines 205-214): sendRequest with
\* tools/call or tools/list
ToolMethods == {"tools/call", "tools/list"}

\* a caller calls callTool() or listTools()
CallSendRequest(c, method) ==
    /\ rpc[c].pc = "idle"
    /\ method \in ToolMethods
    /\ ClientSendRequest(c, method)
    /\ UNCHANGED <<node, graph>>
    /\ UNCHANGED <<gatewayVars, backendVars>>

\* a caller calls close(); close() is synchronous and names no slot
CallClose ==
    /\ ClientClose
    /\ UNCHANGED <<rpc, node, graph>>
    /\ UNCHANGED <<gatewayVars, backendVars>>

\* the caller's continuation takes the method's outcome
CallSettled(c) ==
    /\ rpc[c].pc \in {"returned", "threw"}
    /\ rpc' = [rpc EXCEPT ![c] = IdleRpc]
    /\ wire' = NoWire
    /\ UNCHANGED <<mcp, opened, deletes, node, graph>>
    /\ UNCHANGED <<gatewayVars, backendVars>>

(* ---------------- the agent graph (graph.ts, supervisorAgent.ts) ------ *)
\* the nodes that do work; the supervisor routes between them
Workers == {"plan", "code", "test", "chat"}

\* what decideNextAgent returns: the model's answer, trimmed and lower-cased
Decisions == {"plan", "code", "test", "chat", "end", "something else"}

\* the mapping of the conditional edges (part_001 lines 21-32); an answer it does
\* not hold fails the run
Branch(answer) ==
    IF answer \in Workers THEN answer
    ELSE IF answer = "end" THEN "END"
    ELSE "failed"

\* a graph whose workers hand over to one another in a fixed order
AfterWorkerChain(w) ==
    CASE w = "plan" -> "code"
      [] w = "code" -> "test"
      [] w = "test" -> "chat"
      [] OTHER -> "END"

\* addEdge("plan" | "code" | "test" | "chat", "supervisor") (part_001 lines 33-36)
AfterWorker(w) == "supervisor"

\* how the agentTrace channel takes a node's update: the update replaces the value
ChannelWrite(old, update) == update

\* a node returns { agentTrace: [...state.agentTrace, name] }
Traced(run, name) ==
    [run EXCEPT !.agentTrace = ChannelWrite(run.agentTrace, Append(run.agentTrace, name))]

\* the frame of a step that calls no method of the client
ClientUntouched ==
    /\ wire' = NoWire
    /\ UNCHANGED <<mcp, rpc, opened, deletes>>

\* addEdge(START, "supervisor") (part_001 line 20)
GraphStart ==
    /\ graph.at = "START"
    /\ graph' = [graph EXCEPT !.at = "supervisor"]
    /\ ClientUntouched
    /\ UNCHANGED node
    /\ UNCHANGED <<gatewayVars, backendVars>>

\* supervisorNode (part_005 lines 146-158): it adds itself to the trace
SupervisorNode ==
    /\ graph.at = "supervisor"
    /\ Len(graph.agentTrace) < MaxTrace
    /\ graph' = [Traced(graph, "supervisor") EXCEPT !.at = "routing"]
    /\ ClientUntouched
    /\ UNCHANGED node
    /\ UNCHANGED <<gatewayVars, backendVars>>

\* the conditional edge: decideNextAgent (part_005 lines 95-109) has answered
Route(answer) ==
    /\ graph.at = "routing"
    /\ answer \in Decisions
    /\ graph' = [graph EXCEPT !.at = Branch(answer)]
    /\ ClientUntouched
    /\ UNCHANGED node
    /\ UNCHANGED <<gatewayVars, backendVars>>

\* planNode, codeNode, testNode (part_005 lines 112-143): the agent's model call
\* returns and the node adds itself to the trace, or the call throws and the run
\* fails; none of the three agents talks to the gateway
WorkerNode(w, ok) ==
    /\ w \in Workers \ {"chat"}
    /\ graph.at = w
    /\ graph' = IF ok THEN [Traced(graph, w) EXCEPT !.at = AfterWorker(w)]
                ELSE [graph EXCEPT !.at = "failed"]
    /\ ClientUntouched
    /\ UNCHANGED node
    /\ UNCHANGED <<gatewayVars, backendVars>>

(* ------------------ the chat node (createChatAgentNode) --------------- *)
\* the node's two return statements (part_003 lines 640-643 and 647-652)
ChatReturn(run, result) ==
    [Traced(run, "chat") EXCEPT !.finalResult = result, !.at = AfterWorker("chat")]

\* part_003 lines 557-566: a new client, and its initialize() is called
NodeStart ==
    /\ graph.at = "chat"
    /\ node = "idle"
    /\ ClientInitialize(1, NewClient)
    /\ node' = "initialize"
    /\ UNCHANGED graph
    /\ UNCHANGED <<gatewayVars, backendVars>>

\* part_003 lines 568-570: initialize() has returned; listTools() is called
NodeInitialized ==
    /\ node = "initialize"
    /\ rpc[1].pc = "returned"
    /\ ClientSendRequest(1, "tools/list")
    /\ node' = "listTools"
    /\ UNCHANGED graph
    /\ UNCHANGED <<gatewayVars, backendVars>>

\* part_003 lines 571-630: listTools() has returned; the tools and the agent are
\* built and agent.invoke is awaited
NodeListed ==
    /\ node = "listTools"
    /\ rpc[1].pc = "returned"
    /\ rpc' = [rpc EXCEPT ![1] = IdleRpc]
    /\ node' = "agent"
    /\ wire' = NoWire
    /\ UNCHANGED <<mcp, opened, deletes, graph>>
    /\ UNCHANGED <<gatewayVars, backendVars>>

\* the agent calls one of the tools of createLangChainTools, which calls
\* mcpClient.callTool (part_003 lines 232-545)
NodeToolCall ==
    /\ node = "agent"
    /\ rpc[1].pc = "idle"
    /\ ClientSendRequest(1, "tools/call")
    /\ UNCHANGED <<node, graph>>
    /\ UNCHANGED <<gatewayVars, backendVars>>

\* callTool has settled: the tool returns the result, or from its own catch the
\* text `Error: ...`; the agent goes on either way
NodeToolSettled ==
    /\ node = "agent"
    /\ rpc[1].pc \in {"returned", "threw"}
    /\ rpc' = [rpc EXCEPT ![1] = IdleRpc]
    /\ wire' = NoWire
    /\ UNCHANGED <<mcp, opened, deletes, node, graph>>
    /\ UNCHANGED <<gatewayVars, backendVars>>

\* part_003 lines 631-643: agent.invoke has returned; mcpClient.close(), and the
\* node returns the agent's last message
NodeAgentDone ==
    /\ node = "agent"
    /\ rpc[1].pc = "idle"
    /\ ClientClose
    /\ rpc' = rpc
    /\ node' = "idle"
    /\ graph' = ChatReturn(graph, "response")
    /\ UNCHANGED <<gatewayVars, backendVars>>

\* the catch of part_003 lines 644-653: initialize(), listTools() or agent.invoke
\* has thrown; the node returns the error's text
NodeCatch ==
    /\ \/ node \in {"initialize", "listTools"} /\ rpc[1].pc = "threw"
       \/ node = "agent" /\ rpc[1].pc = "idle"
    /\ rpc' = [rpc EXCEPT ![1] = IdleRpc]
    /\ node' = "idle"
    /\ graph' = ChatReturn(graph, "Error in ChatAgent")
    /\ wire' = NoWire
    /\ UNCHANGED <<mcp, opened, deletes>>
    /\ UNCHANGED <<gatewayVars, backendVars>>

(* --------------------------- specifications --------------------------- *)
Headers == SessionIds \cup {NoSid}

\* the gateway's calls, interleaved at their await points, within one sweep period
\* (the clock stands still)
Next ==
    \/ \E c \in Calls, hdr \in Headers, tok \in Tokens \cup {NoToken}, body \in Bodies :
          PostStart(c, hdr, tok, body)
    \/ \E c \in Calls, ok \in BOOLEAN : PostRevalidated(c, ok)
    \/ \E c \in Calls, ok \in BOOLEAN : PostInitValidated(c, ok)
    \/ \E c \in Calls : PostConnected(c)
    \/ \E c \in Calls : PostConnectFailed(c, "err-A")
    \/ \E c \in Calls : PostReturn(c)
    \/ \E c \in Calls : PostThrow(c, "err-A", FALSE)
    \/ \E c \in Calls : ToolStart(c, GoodArguments)
    \/ \E c \in Calls : ToolDone(c, Ok)
    \/ \E c \in Calls, hdr \in Headers : GetStart(c, hdr)
    \/ \E c \in Calls : GetCleanup(c, "close")
    \/ \E c \in Calls, hdr \in Headers : DelStart(c, hdr)
    \/ \E c \in Calls : DelClose(c)
    \/ \E c \in Calls : DelReturn(c)
    \/ \E c \in Calls : DelThrow(c)

Spec == Init /\ [][Next]_vars

\* the clock and the sweep, with the calls that create and touch sessions taken
\* one at a time
NextSweep ==
    \/ \E hdr \in Headers, tok \in Tokens \cup {NoToken}, body \in Bodies :
          PostStart(1, hdr, tok, body)
    \/ \E ok \in BOOLEAN : PostRevalidated(1, ok)
    \/ \E ok \in BOOLEAN : PostInitValidated(1, ok)
    \/ PostConnected(1)
    \/ PostReturn(1)
    \/ ToolStart(1, GoodArguments)
    \/ ToolDone(1, Ok)
    \/ \E hdr \in Headers : GetStart(1, hdr)
    \/ GetCleanup(1, "close")
    \/ ListSessions
    \/ Sweep
    \/ Tick

SpecSweep == Init /\ [][NextSweep]_vars

\* the push streams: their keep-alive timers on a clock of their own, their
\* teardown by each trigger, next to the calls that create, use and end sessions
NextStream ==
    \/ \E c \in Calls, hdr \in Headers, tok \in {"tok-A", "tok-B"}, body \in Bodies :
          PostStart(c, hdr, tok, body)
    \/ \E c \in Calls, ok \in BOOLEAN : PostRevalidated(c, ok)
    \/ \E c \in Calls, ok \in BOOLEAN : PostInitValidated(c, ok)
    \/ \E c \in Calls : PostConnected(c)
    \/ \E c \in Calls : PostReturn(c)
    \/ \E c \in Calls : ToolStart(c, GoodArguments)
    \/ \E c \in Calls : ToolDone(c, Ok)
    \/ \E c \in Calls, hdr \in Headers : GetStart(c, hdr)
    \/ \E c \in Calls, trig \in Triggers : GetCleanup(c, trig)
    \/ \E c \in Calls : KeepAlive(c)
    \/ Advance
    \/ \E c \in Calls, hdr \in Headers : DelStart(c, hdr)
    \/ \E c \in Calls : DelClose(c)
    \/ \E c \in Calls : DelReturn(c)

SpecStream == Init /\ [][NextStream]_vars

\* what the event loop guarantees: time passes and due timers fire, and a handler
\* resumes once what it awaits has settled; nothing makes a client send a request,
\* disconnect or fail
StreamFairness ==
    /\ WF_vars(Advance)
    /\ WF_vars(\E c \in Calls : KeepAlive(c))
    /\ WF_vars(\E c \in Calls, ok \in BOOLEAN : PostRevalidated(c, ok))
    /\ WF_vars(\E c \in Calls, ok \in BOOLEAN : PostInitValidated(c, ok))
    /\ WF_vars(\E c \in Calls : PostConnected(c))
    /\ WF_vars(\E c \in Calls : PostReturn(c))
    /\ WF_vars(\E c \in Calls : ToolStart(c, GoodArguments))
    /\ WF_vars(\E c \in Calls : ToolDone(c, Ok))
    /\ WF_vars(\E c \in Calls : DelClose(c))
    /\ WF_vars(\E c \in Calls : DelReturn(c))

SpecStreamFair == SpecStream /\ StreamFairness

\* tool calls with any arguments object, or none, on sessions of one credential;
\* the calls may overlap
NextTool ==
    \/ \E c \in Calls, hdr \in Headers, body \in Bodies :
          PostStart(c, hdr, "tok-A", body)
    \/ \E c \in Calls, ok \in BOOLEAN : PostInitValidated(c, ok)
    \/ \E c \in Calls : PostConnected(c)
    \/ \E c \in Calls : PostReturn(c)
    \/ \E c \in Calls, args \in Arguments : ToolStart(c, args)
    \/ \E c \in Calls : ToolDone(c, Ok)

SpecTool == Init /\ [][NextTool]_vars

\* the credential locations of the requests sent: the two dedicated headers, the
\* Authorization header and the body field
Requests ==
    [x : {Absent, "", "tok-A"},
     g : {Absent, "tok-B"},
     auth : {<<Absent>>, <<"Bearer ", "">>, <<"bearer  ", "bad">>, <<"Basic ", "tok-A">>},
     bodyTok : {Absent, "tok-B"}]

\* POST requests with their credential in any of its locations, taken one at a time
NextExtract ==
    \/ \E hdr \in Headers, req \in Requests, body \in Bodies :
          PostRequest(1, hdr, req, body)
    \/ \E ok \in BOOLEAN : PostRevalidated(1, ok)
    \/ \E ok \in BOOLEAN : PostInitValidated(1, ok)
    \/ PostConnected(1)
    \/ PostReturn(1)
    \/ ToolStart(1, GoodArguments)
    \/ ToolDone(1, Ok)

SpecExtract == Init /\ [][NextExtract]_vars

\* the sweep and the shutdown with transports whose close() throws, next to calls
\* that create and use sessions and open streams, taken one at a time
NextShutdown ==
    \/ \E hdr \in Headers, body \in Bodies : PostStart(1, hdr, "tok-A", body)
    \/ \E ok \in BOOLEAN : PostInitValidated(1, ok)
    \/ PostConnected(1)
    \/ PostReturn(1)
    \/ ToolStart(1, GoodArguments)
    \/ ToolDone(1, Ok)
    \/ \E hdr \in Headers : GetStart(1, hdr)
    \/ GetCleanup(1, "close")
    \/ Tick
    \/ \E failing \in SUBSET sessions : SweepTick(failing)
    \/ \E failing \in SUBSET sessions : Shutdown(failing)
    \/ ShutdownBeat
    \/ ForceExit
    \/ ServerClosed

SpecShutdown == Init /\ [][NextShutdown]_vars

\* what the event loop guarantees once a signal has arrived: time passes on the
\* deadline timer and the timer fires when due
ShutdownFairness ==
    /\ WF_vars(ShutdownBeat)
    /\ WF_vars(ForceExit)

SpecShutdownFair == SpecShutdown /\ ShutdownFairness

\* operations in flight while their session is deleted or swept or their stream
\* goes away: overlapping calls on sessions of one credential, the clock and the
\* sweep; a request takes the first free slot (the slots are interchangeable)
NextCancel ==
    \/ \E c \in {d \in Calls : FirstFree(d)}, hdr \in Headers, body \in Bodies :
          PostStart(c, hdr, "tok-A", body)
    \/ \E c \in Calls : PostInitValidated(c, TRUE)
    \/ \E c \in Calls : PostConnected(c)
    \/ \E c \in Calls : PostReturn(c)
    \/ \E c \in Calls : ToolStart(c, GoodArguments)
    \/ \E c \in Calls, r \in {Ok, Answer(500, "text-A")} : ToolDone(c, r)
    \/ \E c \in {d \in Calls : FirstFree(d)}, hdr \in SessionIds : GetStart(c, hdr)
    \/ \E c \in Calls : GetCleanup(c, "close")
    \/ \E c \in {d \in Calls : FirstFree(d)}, hdr \in SessionIds : DelStart(c, hdr)
    \/ \E c \in Calls : DelClose(c)
    \/ \E c \in Calls : DelReturn(c)
    \/ Tick
    \/ Sweep

SpecCancel == Init /\ [][NextCancel]_vars

\* every path of POST /mcp, with the exceptions server.connect and
\* transport.handleRequest can reject with, before and after the transport has
\* begun its response; the calls may overlap
NextFault ==
    \/ \E c \in Calls, hdr \in Headers, tok \in {"tok-A", "bad", NoToken},
          body \in Bodies : PostStart(c, hdr, tok, body)
    \/ \E c \in Calls, ok \in BOOLEAN : PostRevalidated(c, ok)
    \/ \E c \in Calls, ok \in BOOLEAN : PostInitValidated(c, ok)
    \/ \E c \in Calls : PostConnected(c)
    \/ \E c \in Calls, e \in Errors : PostConnectFailed(c, e)
    \/ \E c \in Calls : PostReturn(c)
    \/ \E c \in Calls, e \in Errors, sent \in BOOLEAN : PostThrow(c, e, sent)
    \/ \E c \in Calls : ToolStart(c, GoodArguments)
    \/ \E c \in Calls : ToolDone(c, Ok)

SpecFault == Init /\ [][NextFault]_vars

\* the operations against the upstream API: create_branch and
\* create_or_update_file called on sessions of one credential, every answer of the
\* API, and another writer of the file; the calls may overlap
NextOps ==
    \/ \E c \in Calls, hdr \in Headers, body \in Bodies :
          PostStart(c, hdr, "tok-A", body)
    \/ \E c \in Calls, ok \in BOOLEAN : PostInitValidated(c, ok)
    \/ \E c \in Calls : PostConnected(c)
    \/ \E c \in Calls : PostReturn(c)
    \/ \E c \in Calls : ToolStart(c, GoodArguments)
    \/ \E c \in Calls, r \in Answers : ToolDone(c, r)
    \/ \E c \in Calls : FileStart(c)
    \/ \E c \in Calls, r \in Answers : FileProbed(c, r)
    \/ \E c \in Calls : FileWritten(c)
    \/ ExternalWrite

SpecOps == Init /\ [][NextOps]_vars

(* ------------------------------ claims -------------------------------- *)
\* the positions at which a handler has assigned currentContext and not yet reset it
AttachedPcs == {"handling", "streaming", "closing", "closed"}

\* C1: an operation's upstream call carries a credential of the session the
\* invocation was made on: the one its call attached, or the session's own. It
\* never carries another session's credential.
C1_CredentialIsolation ==
    \A c \in Calls :
        call[c].tool = "fetching" =>
            call[c].upTok \in {call[c].myTok, obj[call[c].sess].tok}

\* C2: while a call is being handled, the context is the one that call attached: no
\* other call's assignment, finally or stream cleanup changes the credential its
\* handler reads.
C2_ContextScopedToCall ==
    \A c \in Calls :
        call[c].pc \in AttachedPcs => ctx.tok = call[c].myTok

\* C3: once a call has finished being handled, on success or on failure, the
\* context it attached is no longer set.
C3_ContextDetached ==
    \A c \in Calls :
        ctx.owner = c => call[c].pc \in AttachedPcs

\* C3 witness: a POST routed to a session has failed in the transport (500) and the
\* context is reset
C3_Witness ==
    /\ last.kind = "post"
    /\ last.hdr \in SessionIds
    /\ last.status = 500
    /\ ctx = EmptyContext

\* the SessionStore (the Map, the SessionInfo objects, the ids drawn) is left as it was
StoreUnchanged ==
    /\ sessions' = sessions
    /\ obj' = obj
    /\ issued' = issued
    /\ everStored' = everStored

\* C4: the id an initialize returns in the mcp-session-id header was never a key of
\* the store before and is a key of it when the header is produced; a call that
\* names the id right then is routed to that session.
C4_InitializeFreshId ==
    [][\A c \in Calls :
         /\ (call[c].hdrOut = NoSid /\ call'[c].hdrOut # NoSid) =>
               /\ call[c].pc = "connecting"
               /\ call'[c].hdrOut \notin everStored
               /\ call'[c].hdrOut \in sessions'
         /\ \A d \in Calls :
               (/\ call[c].hdrOut # NoSid
                /\ call[c].hdrOut \in sessions
                /\ PostStart(d, call[c].hdrOut, NoToken, "call")) =>
                   /\ call'[d].pc = "handling"
                   /\ call'[d].sess = call[c].hdrOut]_vars

\* C4 witness: an initialize has returned its id and a second call naming that id is
\* being handled on the session
C4_Witness ==
    \E c, d \in Calls :
        /\ call[c].hdrOut # NoSid
        /\ call[c].hdrOut \in sessions
        /\ call[d].pc = "handling"
        /\ call[d].hdr = call[c].hdrOut
        /\ call[d].sess = call[c].hdrOut

\* the answer to an initialize without a usable credential
Unauthenticated == Response("post", NoSid, "initialize", 401)

\* C5: an initialize whose credential is missing, or which the validator rejects, is
\* answered 401 and leaves the SessionStore as it was.
C5_InitializeRejected ==
    [][\A c \in Calls :
         /\ PostStart(c, NoSid, NoToken, "initialize") =>
               (last' = Unauthenticated /\ StoreUnchanged)
         /\ PostInitValidated(c, FALSE) =>
               (last' = Unauthenticated /\ StoreUnchanged)
         /\ (/\ call[c].pc = "validate"
             /\ call[c].tok \notin ValidTokens
             /\ call'[c].pc # "validate") =>
               (last' = Unauthenticated /\ StoreUnchanged)]_vars

\* C5 witness: an initialize has been answered 401 while the store holds a session
C5_Witness ==
    /\ last = Unauthenticated
    /\ sessions # {}

\* C6: a DELETE answered 200 has removed the session; a removed id never comes back
\* into the store; a later DELETE with that id is answered 404 and a later POST 400.
C6_TerminateIdempotent ==
    /\ [](last.kind = "delete" /\ last.status = 200 => last.hdr \notin sessions)
    /\ [][\A id \in SessionIds :
            (id \in everStored /\ id \notin sessions) => id \notin sessions']_vars
    /\ [][\A c \in Calls, id \in everStored \ sessions :
            /\ DelStart(c, id) => last' = Response("delete", id, "call", 404)
            /\ \A tok \in Tokens \cup {NoToken}, body \in Bodies :
                  PostStart(c, id, tok, body) => last' = Response("post", id, body, 400)
         ]_vars

\* C6 witness: a DELETE naming a session that was removed has been answered 404
C6_Witness ==
    /\ last.kind = "delete"
    /\ last.status = 404
    /\ last.hdr \in everStored
    /\ obj[last.hdr].closed

\* C7: a sweep tick removes exactly the sessions whose now - lastActivity exceeds
\* TIMEOUT; a session at most TIMEOUT old (one touched just before the tick too) stays.
C7_SweepBoundary ==
    [][Sweep =>
         sessions' = {id \in sessions : (now - obj[id].la) * TickMs <= TIMEOUT}]_vars

\* C7 witness: a sweep has removed one session and kept one that is exactly TIMEOUT old
C7_Witness ==
    \E i, j \in SessionIds :
        /\ i \in everStored \ sessions
        /\ obj[i].closed
        /\ j \in sessions
        /\ (now - obj[j].la) * TickMs = TIMEOUT

\* C8: on a POST to an existing session with a different credential, a failed
\* validation is answered 401, leaves the stored credential as it was and dispatches
\* nothing; a stored credential changes only to the credential of a call whose
\* validation succeeded.
C8_SwapAfterValidation ==
    [][\A c \in Calls :
         /\ (\/ PostRevalidated(c, FALSE)
             \/ /\ call[c].pc = "revalidate"
                /\ call[c].tok \notin ValidTokens
                /\ call'[c].pc # "revalidate") =>
               /\ obj' = obj
               /\ last' = Response("post", call[c].sess, call[c].body, 401)
               /\ call'[c] = IdleCall
               /\ ctx'.owner # c
         /\ \A id \in SessionIds :
               (obj[id].tok # NoToken /\ obj'[id].tok # obj[id].tok) =>
                   \E d \in Calls :
                       /\ call[d].pc = "revalidate"
                       /\ call[d].sess = id
                       /\ call[d].tok = obj'[id].tok
                       /\ call[d].tok \in ValidTokens
                       /\ call'[d].pc = "handling"]_vars

\* C8 witness: a POST to a stored session with another credential has been answered
\* 401 and the session still holds a credential the validator accepts
C8_Witness ==
    /\ last.kind = "post"
    /\ last.status = 401
    /\ last.hdr \in sessions
    /\ obj[last.hdr].tok \in ValidTokens

\* C9: a POST that names an id not in the store (whatever its payload), or names no
\* id and is no initialize, is answered 400 and changes nothing in the store.
C9_InvalidRequest ==
    [][(started' # started) =>
         \A c \in {d \in Calls : FirstFree(d)}, hdr \in Headers, body \in Bodies :
            (\/ hdr # NoSid /\ hdr \notin sessions
             \/ hdr = NoSid /\ body # "initialize") =>
               \A tok \in Tokens \cup {NoToken} :
                  PostStart(c, hdr, tok, body) =>
                     /\ last' = Response("post", hdr, body, 400)
                     /\ StoreUnchanged
                     /\ call'[c] = IdleCall]_vars

\* C9 witness: an initialize payload sent with an id that is not in the store has
\* been answered 400
C9_Witness ==
    /\ last.kind = "post"
    /\ last.status = 400
    /\ last.body = "initialize"
    /\ last.hdr \in SessionIds \ sessions

\* C10: every key of the store was drawn by randomUUID inside an initialize call that
\* carried no session id, was never a key or an object's id before, and is the id of
\* the session's own transport.
C10_ServerGeneratedIds ==
    /\ [](\A id \in sessions : id \in issued /\ obj[id].tsid = id)
    /\ [][/\ \A id \in sessions' \ sessions :
               /\ id \notin everStored
               /\ \E c \in Calls :
                     /\ call[c].pc = "connecting"
                     /\ call[c].hdr = NoSid
                     /\ call[c].body = "initialize"
                     /\ call[c].sess = id
          /\ \A id \in issued' \ issued : obj[id] = BlankObj]_vars

\* C10 witness: two sessions are stored, each under the id of its own transport
C10_Witness ==
    /\ Cardinality(sessions) = 2
    /\ \A id \in sessions : obj[id].tsid = id

\* the credential each location carries, in the order of precedence; the
\* Authorization header carries its value less a leading Bearer prefix
LocationValues(req) ==
    <<req.x, req.g,
      IF Len(req.auth) = 1 THEN ""
      ELSE IF req.auth[1] \in BearerPrefixes THEN req.auth[2]
      ELSE req.auth[1] \o req.auth[2],
      req.bodyTok>>

\* the value of the first location that is not empty, NoToken when all are empty
HighestPrecedence(req) ==
    LET v == LocationValues(req)
        I == {i \in 1 .. 4 : v[i] \notin {Absent, ""}}
    IN  IF I = {} THEN NoToken ELSE v[CHOOSE i \in I : \A j \in I : i <= j]

\* C11: the credential a POST works with is the value of the first non-empty
\* location in the order dedicated headers, Authorization header, body field; the
\* request counts as carrying no credential (401 on an initialize) exactly when all
\* locations are empty.
C11_ExtractionPrecedence ==
    [][\A c \in {d \in Calls : FirstFree(d)}, hdr \in Headers, body \in Bodies,
          req \in Requests :
         ((started' # started) /\ PostRequest(c, hdr, req, body)) =>
            LET t == HighestPrecedence(req)
            IN  /\ (hdr = NoSid /\ body = "initialize") =>
                      IF t = NoToken
                      THEN last' = Unauthenticated /\ call'[c] = IdleCall
                      ELSE /\ call'[c].pc = "validate"
                           /\ call'[c].tok = t
                           /\ last' = NoResponse
                /\ (hdr \in sessions /\ t \notin {NoToken, obj[hdr].tok}) =>
                      /\ call'[c].pc = "revalidate"
                      /\ call'[c].tok = t
                /\ (hdr \in sessions /\ t = NoToken) => call'[c].pc = "handling"]_vars

\* C11 witness: an initialize is being validated with the credential of its
\* Authorization header (the dedicated headers were empty), its prefix stripped
C11_Witness ==
    \E c \in Calls :
        /\ call[c].pc = "validate"
        /\ call[c].tok = "bad"

\* C12: a validation lets the call go on exactly when the identity check answered
\* with a 2xx status; on any other status and on a network failure the call is
\* answered 401, and never 500: no exception leaves the validator.
C12_ValidatorFailsClosed ==
    [][\A c \in Calls :
         (call[c].pc \in {"validate", "revalidate"} /\ call'[c].pc # call[c].pc) =>
            LET r == upstream'.status
                accepted == call'[c].pc \in {"connecting", "handling"}
            IN  /\ upstream'.op = "user"
                /\ upstream'.tok = call[c].tok
                /\ accepted <=> (r \in 200 .. 299)
                /\ ~accepted => (last'.status = 401 /\ call'[c] = IdleCall)
                /\ last'.status # 500]_vars

\* C12 witness: the identity check of a credential GitLab accepts failed on the
\* network, and the call was answered 401
C12_Witness ==
    /\ upstream.op = "user"
    /\ upstream.status = NetworkError
    /\ upstream.tok \in ValidTokens
    /\ last.status = 401

\* C13: a DELETE without an id is answered 400 and one with an unknown id 404, the
\* store left as it was; a DELETE with a known id first hands the request to the
\* transport, and a session leaves the store only in or after the step in which
\* its transport has closed.
C13_TerminateOrder ==
    [][/\ \A c \in Calls, hdr \in Headers :
            (FirstFree(c) /\ DelStart(c, hdr)) =>
               /\ StoreUnchanged
               /\ (hdr = NoSid) => last' = Response("delete", hdr, "call", 400)
               /\ (hdr # NoSid /\ hdr \notin sessions) =>
                     last' = Response("delete", hdr, "call", 404)
               /\ (hdr \in sessions) =>
                     (last' = NoResponse /\ call'[c].pc = "closing")
       /\ \A id \in sessions \ sessions' :
            /\ obj'[id].closed
            /\ \E d \in Calls :
                  /\ call[d].kind = "delete"
                  /\ call[d].sess = id
                  /\ call[d].pc = "closing"
                  /\ call'[d].pc = "closed"]_vars

\* C13 witness: the transport has answered a DELETE and closed, the session is out
\* of the store, and the handler has not yet resumed after handleRequest
C13_Witness ==
    \E c \in Calls :
        /\ call[c].pc = "closed"
        /\ last = Response("delete", call[c].sess, "call", 200)
        /\ call[c].sess \in everStored \ sessions
        /\ obj[call[c].sess].closed

\* C14: a GET without an id or with an unknown id is answered 400 / 404 and opens
\* no stream; a GET on a stored session is answered 200 with a first frame at once;
\* after that a keep-alive frame is written each time 30 s have passed on the
\* stream's timer, never later; and a stream on which cleanup has run writes no frame.
C14_StreamHeartbeat ==
    /\ [](\A c \in Calls : call[c].since <= 30000)
    /\ [][/\ \A c \in Calls, hdr \in Headers :
               (FirstFree(c) /\ GetStart(c, hdr)) =>
                  IF hdr # NoSid /\ hdr \in sessions
                  THEN /\ last'.status = 200
                       /\ last'.frame = "established"
                       /\ call'[c].pc = "streaming"
                       /\ call'[c].since = 0
                  ELSE /\ last'.status = IF hdr = NoSid THEN 400 ELSE 404
                       /\ last'.frame = "none"
                       /\ call' = call
          /\ (last'.frame = "keep-alive") =>
               \E c \in Calls :
                  /\ call[c].kind = "get"
                  /\ call[c].sess = last'.hdr
                  /\ call[c].evs = {}
                  /\ call[c].since = 30000
                  /\ call'[c].since = 0
          /\ \A c \in Calls :
               (call[c].kind = "get" /\ call[c].evs # {}) =>
                  (call'[c].since = 0 /\ call'[c].pc \in {"torn", "idle"})]_vars

\* C14 witness: a keep-alive frame has just been written on a live stream while
\* another stream, already torn down, stays silent
C14_Witness ==
    \E c, d \in Calls :
        /\ last.frame = "keep-alive"
        /\ call[c].pc = "streaming"
        /\ call[c].sess = last.hdr
        /\ call[c].since = 0
        /\ call[d].pc = "torn"

\* C15: the first trigger of a stream's cleanup clears its timer and ends the
\* stream; a later trigger on the same stream is a no-op: it changes neither the
\* store, nor the context, nor any other call.
C15_FirstTriggerWins ==
    [][\A c \in Calls, trig \in Triggers :
         GetCleanup(c, trig) =>
            IF call[c].evs = {}
            THEN call'[c].pc # "streaming" /\ call'[c].res # "open"
            ELSE /\ ctx' = ctx
                 /\ sessions' = sessions
                 /\ obj' = obj
                 /\ \A d \in Calls \ {c} : call'[d] = call[d]]_vars

\* C16: once the session of a live stream is out of the store, the stream's timer
\* is eventually cleared and the stream ended, whatever the client does.
C16_RemovalTearsDown ==
    \A c \in Calls :
        [](call[c].pc = "streaming" /\ call[c].sess \notin sessions
             => <>(call[c].pc # "streaming"))

\* C17: no session in the store owns a closed transport: the step that closes a
\* transport takes its session out of the store, and no session with an open
\* transport with it; closing a transport that is closed already leaves the store
\* as it is.
C17_CloseRemovesSession ==
    /\ [](\A id \in sessions : ~obj[id].closed)
    /\ [][\A id \in SessionIds :
            (~obj[id].closed /\ obj'[id].closed) =>
               /\ id \in sessions
               /\ id \notin sessions'
               /\ \A j \in sessions \ sessions' : obj'[j].closed]_vars
    /\ [][\A c \in Calls :
            (call[c].pc = "closing" /\ obj[call[c].sess].closed /\ DelClose(c)) =>
               StoreUnchanged]_vars

\* C17 witness: two DELETE calls have each closed the transport of the same
\* session, which is out of the store
C17_Witness ==
    \E c, d \in Calls :
        /\ c # d
        /\ call[c].pc = "closed"
        /\ call[d].pc = "closed"
        /\ call[c].sess = call[d].sess
        /\ call[c].sess \notin sessions

\* C18: a session never has two live push streams: no two calls hold an open 200
\* event-stream response with an armed keep-alive timer for the same session.
C18_OneStreamPerSession ==
    \A c, d \in Calls :
        (/\ c # d
         /\ call[c].pc = "streaming"
         /\ call[d].pc = "streaming") => call[c].sess # call[d].sess

\* C19: the listing of /sessions is the same whatever (non-empty) credentials the
\* stored sessions hold, and each of its entries has exactly the fields id,
\* lastActivity, createdAt, connected and a boolean hasToken.
C19_ListingHidesCredentials ==
    [][ListSessions =>
         /\ \A f \in [sessions -> Tokens] :
               last'.list =
                  SessionList(sessions,
                              [id \in SessionIds |->
                                 IF id \in sessions
                                 THEN [obj[id] EXCEPT !.tok = f[id]]
                                 ELSE obj[id]])
         /\ \A e \in last'.list :
               /\ DOMAIN e = {"id", "lastActivity", "createdAt", "connected", "hasToken"}
               /\ e.hasToken \in BOOLEAN
         /\ last'.total = Cardinality(sessions)]_vars

\* C19 witness: a listing of two sessions that hold different credentials
C19_Witness ==
    /\ last.kind = "sessions"
    /\ Cardinality(last.list) = 2
    /\ \E i, j \in sessions : obj[i].tok # obj[j].tok

C21_UpstreamErrorsReported ==
    [][/\ \A c \in Calls, r \in Answers :
            (/\ r.status # NetworkError
             /\ ~ResponseOk(r)
             /\ \/ ToolDone(c, r)
                \/ FileProbed(c, r) /\ r.status # 404
                \/ FileWritten(c) /\ r = WriteAnswer(call[c].method, remote)) =>
                /\ last'.kind = "tool-error"
                /\ last'.status = r.status
                /\ last'.data = r.text
       /\ (last'.kind = "tool-result") => ResponseOk(upstream')]_vars

\* C22: a POST call ends in the step that produces its one response (401, 400, the
\* transport's, or 500 from the catch), and no exception leaves the handler.
C22_OneResponsePerPost ==
    [][/\ last'.thrown = "none"
       /\ \A c \in Calls :
            (call[c].kind = "post" /\ call[c].pc # "idle" /\ call'[c].pc = "idle") =>
               /\ last'.kind = "post"
               /\ last'.status \in {200, 400, 401, 500}
       /\ (last'.kind = "post") =>
            \/ started' # started
            \/ \E c \in Calls :
                  call[c].kind = "post" /\ call[c].pc # "idle" /\ call'[c].pc = "idle"
       /\ \A c \in Calls, hdr \in Headers, tok \in Tokens \cup {NoToken}, body \in Bodies :
            (PostStart(c, hdr, tok, body) /\ call'[c].pc = "idle") =>
               (last'.kind = "post" /\ last'.status \in {400, 401})]_vars

\* C23: the 500 answer to a caught exception is the same whatever the exception's
\* message is.
C23_GenericInternalError ==
    [][\A c \in Calls, e \in Errors :
         (PostThrow(c, e, FALSE) \/ PostConnectFailed(c, e)) =>
            \A f \in Errors :
               last' = [Response("post", call[c].hdr, call[c].body, 500)
                          EXCEPT !.data = ErrorData(f)]]_vars

\* C24: in a sweep tick and in a shutdown, every session the pass covers (the
\* expired ones, resp. all stored ones) leaves the store, the ones whose close()
\* threw included, and every transport whose close() did not throw is closed.
C24_CleanupIsolated ==
    [][\A failing \in SUBSET sessions :
         /\ SweepTick(failing) =>
               /\ sessions' = sessions \ ExpiredSessions
               /\ \A id \in ExpiredSessions \ failing : obj'[id].closed
         /\ Shutdown(failing) =>
               /\ sessions' = {}
               /\ \A id \in sessions \ failing : obj'[id].closed]_vars

\* C24 witness: a pass has removed two sessions, one whose transport it closed and
\* one whose close() threw
C24_Witness ==
    \E i, j \in everStored \ sessions :
        /\ obj[i].closed
        /\ ~obj[j].closed
        /\ i > j

\* C25: once gracefulShutdown has run the process exits; it exits with 0 only
\* after the shutdown pass, when every connection has ended, and otherwise with 1
\* when the deadline has passed, connections still open or not.
C25_ShutdownTerminates ==
    /\ [](proc.phase = "shutting" => <>Exited)
    /\ [][/\ (~Exited /\ proc'.phase = "exit0") =>
               /\ proc.phase = "shutting"
               /\ \A c \in Calls : call[c].pc = "idle"
          /\ (~Exited /\ proc'.phase = "exit1") =>
               /\ proc.phase = "shutting"
               /\ proc.left = 0
          /\ Exited => proc' = proc]_vars

\* C25 witness: the process has exited through the deadline while a stream was
\* still open (server_instance.close never called back)
C25_Witness ==
    /\ proc.phase = "exit1"
    /\ \E c \in Calls : call[c].pc = "streaming"

\* a store entry is whole: it has its credential, its timestamps and a transport
\* that is open and carries the entry's id
WholeEntry(id) ==
    /\ obj[id].tok # NoToken
    /\ obj[id].connected
    /\ obj[id].tsid = id
    /\ obj[id].ca <= obj[id].la
    /\ ~obj[id].closed

C28_OneUpstreamCall ==
    [][\A c \in Calls :
         /\ ToolStart(c, GoodArguments) =>
               upstream' = Upstream("create_branch", call[c].myTok, NoStatus)
         /\ FileStart(c) =>
               upstream' = Upstream("get_file", call[c].myTok, NoStatus)
         /\ \A r \in Answers :
               /\ FileProbed(c, r) =>
                     /\ upstream'.op \in {"PUT", "POST"}
                     /\ upstream'.tok = call[c].myTok
                     /\ upstream'.status = NoStatus
               /\ ToolDone(c, r) => upstream'.status # NoStatus
         /\ FileWritten(c) => upstream'.status # NoStatus]_vars

\* C29: a POST or a GET that names a stored session sets its lastActivity to the
\* current time, whatever becomes of the call; lastActivity never decreases and
\* is never earlier than createdAt.
C29_TouchOnEveryCall ==
    /\ [](\A id \in SessionIds : obj[id].ca <= obj[id].la)
    /\ [][\A id \in SessionIds : obj[id].la <= obj'[id].la]_vars
    /\ [][(started' # started) =>
            \A c \in {d \in Calls : FirstFree(d)}, hdr \in sessions :
               /\ GetStart(c, hdr) => obj'[hdr].la = now
               /\ \A tok \in Tokens \cup {NoToken}, body \in Bodies :
                     PostStart(c, hdr, tok, body) => obj'[hdr].la = now]_vars

\* C29 witness: a GET has touched a session created at an earlier time
C29_Witness ==
    /\ last.kind = "get"
    /\ last.status = 200
    /\ last.hdr \in sessions
    /\ obj[last.hdr].la = now
    /\ obj[last.hdr].ca < now

\* C30: an upstream call that has been issued stays outstanding, with its
\* credential, operation and session unchanged, through every step of every other
\* handler, the sweep included, until its own fetch settles with a result or an
\* error for the session that issued it; while it is outstanding its settlement
\* remains possible, whether or not the session is still stored or open.
C30_NeverCancelled ==
    /\ [](\A c \in Calls :
            call[c].tool = "fetching" => ENABLED ToolDone(c, Ok))
    /\ [][\A c \in Calls :
            call[c].tool = "fetching" =>
               \/ /\ call'[c].tool = "fetching"
                  /\ call'[c].upTok = call[c].upTok
                  /\ call'[c].op = call[c].op
                  /\ call'[c].sess = call[c].sess
               \/ /\ call'[c].tool = "none"
                  /\ upstream'.status # NoStatus
                  /\ upstream'.tok = call[c].upTok
                  /\ last'.kind \in {"tool-result", "tool-error"}
                  /\ last'.hdr = call[c].sess]_vars

\* C30 witness: an operation has returned its result for a session that was
\* closed and taken out of the store while the fetch was outstanding
C30_Witness ==
    /\ last.kind = "tool-result"
    /\ last.hdr \in everStored \ sessions
    /\ obj[last.hdr].closed
    /\ upstream.status = 200

\* C31: a session's credential is written only in the step in which the identity
\* check has answered 2xx for that very credential (at initialize or at a swap), so
\* every stored session holds a credential the validator has accepted.
C31_StoredCredentialValidated ==
    /\ [][\A id \in SessionIds :
            obj'[id].tok # obj[id].tok =>
               /\ upstream'.op = "user"
               /\ upstream'.tok = obj'[id].tok
               /\ upstream'.status \in 200 .. 299]_vars
    /\ [](\A id \in sessions : obj[id].tok \in ValidTokens)

\* C31 witness: a POST to a stored session has brought another credential, the
\* identity check accepted it and the session holds it now
C31_Witness ==
    \E c \in Calls :
       /\ call[c].pc = "handling"
       /\ call[c].hdr \in sessions
       /\ upstream = Upstream("user", obj[call[c].hdr].tok, 200)
       /\ obj[call[c].hdr].tok = "tok-B"
       /\ \E id \in sessions : obj[id].tok = "tok-A"

\* C32: a POST that names a stored session and brings no credential, or the stored
\* one, calls no identity check, leaves the stored credential as it is and is
\* handed to the transport in the same step under the stored credential.
C32_NoRevalidationWithoutNewToken ==
    [][(started' # started) =>
         \A c \in {d \in Calls : FirstFree(d)}, hdr \in sessions, body \in Bodies :
            \A tok \in {NoToken, obj[hdr].tok} :
               PostStart(c, hdr, tok, body) =>
                  /\ upstream' = NoUpstream
                  /\ obj'[hdr].tok = obj[hdr].tok
                  /\ call'[c].pc = "handling"
                  /\ call'[c].sess = hdr
                  /\ call'[c].myTok = obj[hdr].tok
                  /\ ctx' = [sid |-> obj[hdr].tsid, tok |-> obj[hdr].tok, owner |-> c]]_vars

\* C32 witness: a tools/call POST naming a stored session has been handed to the
\* transport with the stored credential in the context and no identity check made
C32_Witness ==
    \E c \in Calls :
       /\ call[c].pc = "handling"
       /\ call[c].body = "call"
       /\ call[c].tool = "pending"
       /\ call[c].hdr \in sessions
       /\ ctx = [sid |-> call[c].hdr, tok |-> obj[call[c].hdr].tok, owner |-> c]
       /\ upstream = NoUpstream
       /\ last = NoResponse

\* C33: a call is handed to a session's transport only in a step after which the
\* session is in the store; a POST whose session left the store while its
\* credential was being validated is not handed to the transport when it resumes,
\* and writes no credential to the removed session.
C33_DispatchOnlyWhileStored ==
    [][\A c \in Calls :
         /\ (call[c].pc = "revalidate" /\ call[c].sess \notin sessions) =>
               /\ call'[c].pc # "handling"
               /\ obj'[call[c].sess].tok = obj[call[c].sess].tok
         /\ (call[c].pc # "handling" /\ call'[c].pc = "handling") =>
               call'[c].sess \in sessions']_vars

\* C34: when an initialize call ends with a 400, 401 or 500 response, the session
\* it created, if it created one, is not in the store.
C34_NoOrphanSession ==
    [][\A c \in Calls :
         (/\ call[c].kind = "post"
          /\ call[c].hdr = NoSid
          /\ call[c].body = "initialize"
          /\ call[c].pc # "idle"
          /\ call'[c].pc = "idle"
          /\ last'.kind = "post"
          /\ last'.status \in {400, 401, 500}) =>
            call[c].sess \notin sessions']_vars

\* the single use of authorization codes: callbacks that overlap, the further
\* codes and the cleanup timer
NextCodes ==
    \/ \E c \in Calls, code \in Codes \cup {Absent} : OauthStart(c, code)
    \/ \E c \in Calls, r \in Exchanges : OauthExchanged(c, r)
    \/ \E c \in Calls : OauthAgentReady(c, TRUE)
    \/ OtherCodes
    \/ CleanupTick

SpecCodes == Init /\ [][NextCodes]_vars

\* the life of chat sessions: logins one at a time, chat requests, the clock and
\* the cleanup timer
NextExpiry ==
    \/ \E code \in Codes : OauthStart(1, code)
    \/ OauthExchanged(1, "token")
    \/ OauthAgentReady(1, TRUE)
    \/ \E sid \in SessionIds : ChatRequest(sid, TRUE)
    \/ CleanupTick
    \/ Tick

SpecExpiry == Init /\ [][NextExpiry]_vars

\* logins and the chat requests that follow them
NextLogin ==
    \/ \E c \in Calls, code \in Codes : OauthStart(c, code)
    \/ \E c \in Calls, r \in Exchanges : OauthExchanged(c, r)
    \/ \E c \in Calls, ok \in BOOLEAN : OauthAgentReady(c, ok)
    \/ \E sid \in SessionIds \cup {NoSid}, ok \in BOOLEAN : ChatRequest(sid, ok)
    \/ \E sid \in SessionIds : SessionDelete(sid)

SpecLogin == Init /\ [][NextLogin]_vars

\* C35: at most one exchange is in flight for a code; a callback with a code whose
\* exchange has returned is answered invalid_grant and starts no exchange; a code
\* leaves the used set only in the step in which its exchange throws.
C35_SingleUseCodes ==
    /\ [](\A code \in Codes :
            Cardinality({c \in Calls : /\ oauth[c].pc = "exchanging"
                                       /\ oauth[c].code = code}) <= 1)
    /\ [][\A c \in Calls, code \in settled :
            OauthStart(c, code) =>
               /\ reply' = Reply("oauth", 400, "invalid_grant", NoSid)
               /\ oauth' = oauth]_vars
    /\ [][\A code \in usedCodes \ usedCodes' :
            /\ reply' = Reply("oauth", 500, "Internal server error", NoSid)
            /\ \E c \in Calls : /\ oauth[c].pc = "exchanging"
                                /\ oauth[c].code = code
                                /\ oauth'[c] = IdleCallback]_vars

\* C36: the cleanup timer keeps a session that served a chat request less than 30
\* minutes ago and removes a session that served none for more than 30 minutes.
C36_ExpiryByInactivity ==
    [][CleanupTick =>
         \A id \in DOMAIN activeSessions :
            LET used == IF chatted[id] = NoChat THEN activeSessions[id].createdAt
                        ELSE chatted[id]
                idle == ((now - used) * TickMs) \div MsPerMinute
            IN  /\ (chatted[id] # NoChat /\ idle < SESSION_MAX_AGE) =>
                      id \in DOMAIN activeSessions'
                /\ (idle > SESSION_MAX_AGE) => id \notin DOMAIN activeSessions']_vars

\* C37: when the OAuth callback answers 200, the sessionId of its body is a key of
\* activeSessions, and a chat request made with it in the next step is not
\* answered 404.
C37_ReturnedSessionStored ==
    /\ []((reply.route = "oauth" /\ reply.status = 200) =>
            reply.sid \in DOMAIN activeSessions)
    /\ [][\A ok \in BOOLEAN :
            (/\ reply.route = "oauth"
             /\ reply.status = 200
             /\ ChatRequest(reply.sid, ok)) => reply'.status # 404]_vars

\* one SimpleMCPClient under callers that call its methods in any order, also
\* while another call is in flight
NextClient ==
    \/ \E c \in Calls : CallInitialize(c)
    \/ \E c \in Calls, r \in InitializeAnswers : ClientInitialized(c, r)
    \/ \E c \in Calls, status \in {200, 500, NetworkError} :
          ClientNotified(c, GatewayAnswer(status, NoSid))
    \/ \E c \in Calls, method \in ToolMethods : CallSendRequest(c, method)
    \/ \E c \in Calls, r \in RequestAnswers : ClientAnswered(c, r)
    \/ CallClose
    \/ \E c \in Calls : CallSettled(c)

SpecClient == Init /\ [][NextClient]_vars

\* C40: while no initialize() has returned since the client was made or last
\* closed (and none is in flight), callTool and listTools throw 'Session not initialized' and send
\* nothing; the session id is set only from the header of a 2xx answer to an
\* initialize; the ids the client puts on its requests increase strictly; a
\* session gets at most one DELETE, and a close() without a session sends none.
C40_ClientLifecycle ==
    /\ [][\A c \in Calls, method \in ToolMethods :
            (/\ ~mcp.ready
             /\ \A d \in Calls : rpc[d].pc \notin {"init-fetch", "init-notify"}
             /\ CallSendRequest(c, method)) =>
               /\ rpc'[c] = Rpc("threw", "Session not initialized")
               /\ wire' = NoWire]_vars
    /\ [][(mcp'.sessionId # mcp.sessionId /\ mcp'.sessionId # NoSid) =>
            \E c \in Calls, r \in InitializeAnswers :
               /\ ClientInitialized(c, r)
               /\ ResponseOk(r)
               /\ r.sid = mcp'.sessionId]_vars
    /\ [](\A i, j \in 1 .. Len(mcp.sent) : i < j => mcp.sent[i] < mcp.sent[j])
    /\ [](\A sid \in SessionIds :
            /\ deletes[sid] <= 1
            /\ deletes[sid] = 1 => sid \in opened)
    /\ [][(mcp.sessionId = NoSid /\ CallClose) => wire' = NoWire]_vars

\* one run of the compiled graph, with the gateway's answers to the chat node's
\* client
NextGraph ==
    \/ GraphStart
    \/ SupervisorNode
    \/ \E answer \in Decisions : Route(answer)
    \/ \E w \in Workers \ {"chat"}, ok \in BOOLEAN : WorkerNode(w, ok)
    \/ NodeStart
    \/ \E r \in InitializeAnswers : ClientInitialized(1, r)
    \/ \E status \in {200, 500, NetworkError} :
          ClientNotified(1, GatewayAnswer(status, NoSid))
    \/ NodeInitialized
    \/ NodeListed
    \/ NodeToolCall
    \/ \E r \in RequestAnswers : ClientAnswered(1, r)
    \/ NodeToolSettled
    \/ NodeAgentDone
    \/ NodeCatch

SpecGraph == Init /\ [][NextGraph]_vars

\* C38: when the chat node returns, it has not thrown, it has set finalResult and
\* added "chat" to agentTrace, and a DELETE has been sent for every gateway
\* session its clients were given.
C38_ChatNodeReleases ==
    [][(graph.at = "chat" /\ graph'.at # "chat") =>
         /\ graph'.at = "supervisor"
         /\ graph'.agentTrace = Append(graph.agentTrace, "chat")
         /\ graph'.finalResult # ""
         /\ \A sid \in opened' : deletes'[sid] >= 1]_vars

=============================================================================
